---- MODULE Spec2Model ----
(***************************************************************************)
(* The registry client and the SkyDB read-modify-write layer of skynet-js, *)
(* against a portal that holds the registry and the blob store.            *)
(*                                                                         *)
(* A call (getEntry, setEntry, getJSON, setJSON, deleteJSON, setDataLink)  *)
(* is a process that suspends at every network request; the portal's       *)
(* answer is a separate step.  Byte strings are modelled by their length   *)
(* and an identifier of their content, signatures by the key and digest    *)
(* they were made from, hashes as injective.                               *)
(***************************************************************************)
EXTENDS Integers, Sequences, FiniteSets, TLC

VARIABLES
  registry,   \* the portal's registry: slot -> Null or the stored signed entry
  blobs,      \* the portal's blob store: the set of uploaded contents
  lastWrite,  \* per slot, the write call whose POST was accepted last, and
              \* whether the portal answered that call honestly
  pc,         \* per process, the position of its current call
  call,       \* per process, the operation and arguments of its current call
  loc,        \* per process, the locals of its current call, the error its
              \* registry GET raised, and whether the portal answered honestly
  result,     \* per process, what its last call returned or threw
  net,        \* per process, the requests its current call has issued
  ncalls,     \* the number of calls started so far
  portal,     \* url: the client's portal URL, given at construction
              \* ("custom"), or SkynetClient.resolvedPortalUrl: "unresolved",
              \* "resolving", "resolved", "failed"; requests: the requests
              \* for the portal URL issued so far; error: what the request
              \* failed with
  mysky       \* MySky.instance, the connectors created so far, and the
              \* instance's pendingPermissions, grantedPermissions and dacs;
              \* `added` keeps every permission addPermissions was given,
              \* `destroyed` the connectors whose connection and iframe
              \* destroy() has closed and removed

vars == <<registry, blobs, lastWrite, pc, call, loc, result, net, ncalls,
          portal, mysky>>

-----------------------------------------------------------------------------
(* Bounds. *)

\* The width of a revision in the model; the program's width is 64.
RevBits == 2

\* The number of calls one behaviour starts.
MaxCalls == 2

-----------------------------------------------------------------------------
(* Values. *)

Null == [null |-> TRUE]

MAX_REVISION == 2 ^ RevBits - 1

RAW_SKYLINK_SIZE == 34

BASE64_ENCODED_SKYLINK_SIZE == 46

SIGNATURE_LENGTH == 64

HASH_LENGTH == 32

JSON_RESPONSE_VERSION == 2

\* Key pairs: the private key of a caller and the public key derived from it.
\* Callers write with "sk1"; "pk2" is the key of somebody else.
PrivateKeys == {"sk1"}

PublicKeys == {"pk1", "pk2"}

\* sign.keyPair.fromSecretKey(privateKey).publicKey
publicKeyOf(privateKey) == IF privateKey = "sk1" THEN "pk1" ELSE "pk2"

\* Data keys.  "h_app" is the hex form of the hash of "app", so it is a data
\* key of its own when the caller passes hashedDataKeyHex.
DataKeys == {"app", "h_app"}

\* toHexString(hashDataKey(dataKey))
hashDataKey(dataKey) == IF dataKey = "app" THEN "h_app" ELSE "h_h_app"

HashedDataKeys == {"h_app", "h_h_app"}

\* The (dataKey, hashedDataKeyHex) pairs a call is made with.
KeyArgs == {<<"app", FALSE>>, <<"h_app", TRUE>>, <<"h_app", FALSE>>}

\* The data key as it goes over the wire (registry.js: getEntryUrlForPortal,
\* postSignedEntry) and into the digest (hashRegistryEntry).
wireDataKey(dataKey, hashedDataKeyHex) ==
  IF hashedDataKeyHex THEN dataKey ELSE hashDataKey(dataKey)

Slots == PublicKeys \X HashedDataKeys

\* JSON values: a number, a string, null (Null), or an object, which is a
\* function from its keys to JSON values.
Num(n) == [num |-> n]

Text == [text |-> "text"]

\* typeof value === "object" && value !== null
IsObject(value) == DOMAIN value \cap {"num", "text", "null"} = {}

\* The values that count as false in a condition.
Falsy == {Null, Num(0)}

\* The JSON documents callers store.
Jsons == {[a |-> Num(1)], [a |-> Num(2)]}

\* The object setJSON uploads.
fullData(json) == ("_data" :> json) @@ ("_v" :> Num(JSON_RESPONSE_VERSION))

\* A document stored before the wrapper existed.
LegacyDoc == [b |-> Num(1)]

\* The contents the blob store may hold; a skylink identifies a content by
\* its place in this list (content addressing).
ContentList == <<fullData([a |-> Num(1)]), fullData([a |-> Num(2)]), LegacyDoc>>

Contents == {ContentList[i] : i \in 1..Len(ContentList)}

LinkIds == 1..Len(ContentList)

linkIdOf(content) == CHOOSE i \in LinkIds : ContentList[i] = content

\* Byte strings: a length and what the bytes are.  id 0 is all zero bytes.
Bytes(len, id) == [len |-> len, id |-> id]

EMPTY_SKYLINK == Bytes(RAW_SKYLINK_SIZE, 0)

\* Skylink strings: the base64 text of the raw skylink id, with or without
\* the URI prefix.  The text of id 0 decodes to 34 zero bytes.
SkylinkString(uri, id) == [uri |-> uri, b64 |-> id]

formatSkylink(skylink) == SkylinkString(TRUE, skylink.b64)

trimUriPrefix(skylink) == SkylinkString(FALSE, skylink.b64)

decodeSkylinkBase64(skylink) == Bytes(RAW_SKYLINK_SIZE, skylink.b64)

encodeSkylinkBase64(data) == SkylinkString(FALSE, data.id)

uint8ArrayToStringUtf8(data) == SkylinkString(FALSE, data.id)

decodeSkylink(dataLink) == decodeSkylinkBase64(trimUriPrefix(dataLink))

\* The entry data a slot may hold: the sentinel, a raw skylink, a legacy
\* base64 skylink, and no data at all.
RawLinks == {Bytes(RAW_SKYLINK_SIZE, i) : i \in LinkIds}

LegacyLinks == {Bytes(BASE64_ENCODED_SKYLINK_SIZE, i) : i \in {3}}

DataValues == {EMPTY_SKYLINK, Bytes(0, 0)} \cup RawLinks \cup LegacyLinks

Revisions == 0..MAX_REVISION

\* What a function returns or throws.
Ok(value) == [ok |-> TRUE, value |-> value]

Throw(error) == [ok |-> FALSE, error |-> error]

\* An error made by the library itself (new Error(message)).
Error(message) == [name |-> "Error", message |-> message]

\* An error raised by the transport: with or without a response, and the
\* response with or without a status.
AxiosError(response, status) ==
  [name |-> "AxiosError", response |-> response, status |-> status]

AxiosErrors ==
  {AxiosError(TRUE, 404), AxiosError(TRUE, 500), AxiosError(TRUE, 0),
   AxiosError(FALSE, 0)}

-----------------------------------------------------------------------------
(* Cryptography. *)

\* hashRegistryEntry: the hash of (data key bytes, data, revision), the data
\* key hashed first unless it is a hashed hex value already.
hashRegistryEntry(entry, hashedDataKeyHex) ==
  <<wireDataKey(entry.dataKey, hashedDataKeyHex), entry.data, entry.revision>>

\* A signature: its length in bytes, and the key and message its first 64
\* bytes were made from.  A length above 64 is the signature followed by the
\* message (a signed message).
Signature(len, signer, digest) ==
  [len |-> len, signer |-> signer, digest |-> digest]

\* nacl.sign.detached(message, secretKey)
signDetached(message, privateKey) ==
  Signature(SIGNATURE_LENGTH, privateKey, message)

\* nacl.sign(message, secretKey): the signature with the message appended.
sign(message, privateKey) ==
  Signature(SIGNATURE_LENGTH + HASH_LENGTH, privateKey, message)

\* nacl.sign.detached.verify(message, signature, publicKey): throws on a
\* signature that is not 64 bytes long.
verifyDetached(message, signature, publicKey) ==
  IF signature.len # SIGNATURE_LENGTH THEN "throw"
  ELSE IF /\ signature.signer \in PrivateKeys
          /\ publicKeyOf(signature.signer) = publicKey
          /\ signature.digest = message
       THEN "true"
       ELSE "false"

\* A 64-byte string that is the signature of nothing.
GarbageSignature == Signature(SIGNATURE_LENGTH, "none", Null)

-----------------------------------------------------------------------------
(* registry.js *)

signEntry(privateKey, entry, hashedDataKeyHex) ==
  sign(hashRegistryEntry(entry, hashedDataKeyHex), privateKey)

assertUint64(revision) == revision >= 0 /\ revision <= MAX_REVISION

\* handleGetEntryErrResponse rethrowing what it got when it has no status.
handleGetEntryErrResponse_rethrow(err) ==
  IF err.response /\ err.status = 404
  THEN Ok([entry |-> Null, signature |-> Null])
  ELSE Throw(err)

\* handleGetEntryErrResponse without the 404 case.
handleGetEntryErrResponse_no404(err) ==
  IF ~err.response
  THEN Throw(Error("Error response field not found, incomplete Axios error"))
  ELSE IF err.status = 0
  THEN Throw(Error("Error response did not contain expected field 'status'"))
  ELSE Throw(err)

handleGetEntryErrResponse(err) ==
  IF ~err.response
  THEN Throw(Error("Error response field not found, incomplete Axios error"))
  ELSE IF err.status = 0
  THEN Throw(Error("Error response did not contain expected field 'status'"))
  ELSE IF err.status = 404
  THEN Ok([entry |-> Null, signature |-> Null])
  ELSE Throw(err)

\* The answers of the portal to a registry GET: a transport error, a
\* response that lacks a field, or a response with data, revision, signature.
GetErr(err) == [type |-> "error", err |-> err]

GetIncomplete == [type |-> "incomplete"]

GetBody(data, revision, signature) ==
  [type |-> "body", data |-> data, revision |-> revision,
   signature |-> signature]

\* getEntry taking every failed request for an entry that is not there.
getEntryResult_errorAsAbsent(publicKey, dataKey, hashedDataKeyHex, response) ==
  IF response.type \in {"error", "incomplete"}
  THEN Ok([entry |-> Null, signature |-> Null])
  ELSE LET signedEntry ==
             [entry |-> [dataKey |-> dataKey, data |-> response.data,
                         revision |-> response.revision],
              signature |-> response.signature]
           verified ==
             verifyDetached(hashRegistryEntry(signedEntry.entry, hashedDataKeyHex),
                            signedEntry.signature, publicKey)
       IN IF verified = "throw" THEN Throw(Error("bad signature size"))
          ELSE IF verified = "true" THEN Ok(signedEntry)
          ELSE Throw(Error("could not verify signature"))

\* getEntry taking an entry of zero bytes for no entry.
getEntryResult_sentinelAbsent(publicKey, dataKey, hashedDataKeyHex, response) ==
  IF response.type = "error" THEN handleGetEntryErrResponse(response.err)
  ELSE IF response.type = "incomplete"
  THEN Throw(Error("Did not get a complete entry response"))
  ELSE IF response.data = Bytes(RAW_SKYLINK_SIZE, 0)
  THEN Ok([entry |-> Null, signature |-> Null])
  ELSE Ok([entry |-> [dataKey |-> dataKey, data |-> response.data,
                      revision |-> response.revision],
           signature |-> response.signature])

\* getEntry returning the entry of a complete answer without verifying it.
getEntryResult_unverified(publicKey, dataKey, hashedDataKeyHex, response) ==
  IF response.type = "error" THEN handleGetEntryErrResponse(response.err)
  ELSE IF response.type = "incomplete"
  THEN Throw(Error("Did not get a complete entry response"))
  ELSE Ok([entry |-> [dataKey |-> dataKey, data |-> response.data,
                      revision |-> response.revision],
           signature |-> response.signature])

\* getEntry from the answer to its GET on.
getEntryResult(publicKey, dataKey, hashedDataKeyHex, response) ==
  IF response.type = "error" THEN handleGetEntryErrResponse(response.err)
  ELSE IF response.type = "incomplete"
  THEN Throw(Error("Did not get a complete entry response"))
  ELSE LET signedEntry ==
             [entry |-> [dataKey |-> dataKey, data |-> response.data,
                         revision |-> response.revision],
              signature |-> response.signature]
           verified ==
             verifyDetached(hashRegistryEntry(signedEntry.entry, hashedDataKeyHex),
                            signedEntry.signature, publicKey)
       IN IF verified = "throw" THEN Throw(Error("bad signature size"))
          ELSE IF verified = "true" THEN Ok(signedEntry)
          ELSE Throw(Error("could not verify signature"))

-----------------------------------------------------------------------------
(* skydb.js *)

\* getNextRevisionFromEntry with the bound compared by >= instead of >.
getNextRevisionFromEntry_offByOneBound(entry) ==
  LET revision == IF entry = Null THEN 0 ELSE entry.revision + 1
  IN IF revision >= MAX_REVISION
     THEN Throw(Error("Current entry already has maximum allowed revision"))
     ELSE Ok(revision)

\* getNextRevisionFromEntry taking an absent entry for one of revision 0.
getNextRevisionFromEntry_absentAsZero(entry) ==
  LET revision == IF entry = Null THEN 1 ELSE entry.revision + 1
  IN IF revision > MAX_REVISION
     THEN Throw(Error("Current entry already has maximum allowed revision"))
     ELSE Ok(revision)

getNextRevisionFromEntry(entry) ==
  LET revision == IF entry = Null THEN 0 ELSE entry.revision + 1
  IN IF revision > MAX_REVISION
     THEN Throw(Error("Current entry already has maximum allowed revision"))
     ELSE Ok(revision)

\* getSkyDBRegistryEntry without the check for the deletion sentinel.
skyDBRegistryEntry_noSentinel(entry) ==
  IF entry = Null THEN Null ELSE entry

\* getSkyDBRegistryEntry, after getEntry has returned.
skyDBRegistryEntry(entry) ==
  IF entry = Null \/ entry.data = EMPTY_SKYLINK THEN Null ELSE entry

\* parseDataLink without the legacy form.
parseDataLink_noLegacy(data, legacy) ==
  IF data.len = RAW_SKYLINK_SIZE
  THEN Ok([rawDataLink |-> encodeSkylinkBase64(data),
           dataLink |-> formatSkylink(encodeSkylinkBase64(data))])
  ELSE Throw(Error("entry.data: expected length 34 bytes"))

parseDataLink(data, legacy) ==
  IF legacy /\ data.len = BASE64_ENCODED_SKYLINK_SIZE
  THEN Ok([rawDataLink |-> uint8ArrayToStringUtf8(data),
           dataLink |-> formatSkylink(uint8ArrayToStringUtf8(data))])
  ELSE IF data.len = RAW_SKYLINK_SIZE
  THEN Ok([rawDataLink |-> encodeSkylinkBase64(data),
           dataLink |-> formatSkylink(encodeSkylinkBase64(data))])
  ELSE Throw(Error("entry.data: expected length 34 bytes"))

\* The skylink strings that are valid: the text of a raw skylink, with or
\* without the URI prefix.
IsSkylinkString(value) == value.b64 \in {0} \cup LinkIds

\* validateSkylinkString: the skylink of a valid skylink string, without the
\* URI prefix.
validateSkylinkString(name, value) ==
  IF IsSkylinkString(value) THEN Ok(trimUriPrefix(value))
  ELSE Throw(Error(name))

\* checkCachedDataLink comparing the cached data link as the caller gave it.
checkCachedDataLink_asGiven(rawDataLink, cachedDataLink) ==
  IF cachedDataLink # Null
  THEN LET valid == validateSkylinkString("cachedDataLink", cachedDataLink)
       IN IF valid.ok THEN Ok(rawDataLink = cachedDataLink) ELSE valid
  ELSE Ok(FALSE)

checkCachedDataLink(rawDataLink, cachedDataLink) ==
  IF cachedDataLink # Null
  THEN LET valid == validateSkylinkString("cachedDataLink", cachedDataLink)
       IN IF valid.ok THEN Ok(rawDataLink = valid.value) ELSE valid
  ELSE Ok(FALSE)

\* data[key] as a condition: a missing key is undefined, which is false.
HasTruthy(data, key) == key \in DOMAIN data /\ data[key] \notin Falsy

\* getJSON returning the downloaded object as it is, wrapper included.
jsonFromContent_wrapped(data, dataLink) ==
  IF ~IsObject(data) THEN Throw(Error("File data is not JSON"))
  ELSE Ok([data |-> data, dataLink |-> dataLink])

\* getJSON from the downloaded data on.
jsonFromContent(data, dataLink) ==
  IF ~IsObject(data) THEN Throw(Error("File data is not JSON"))
  ELSE IF ~(HasTruthy(data, "_data") /\ HasTruthy(data, "_v"))
  THEN Ok([data |-> data, dataLink |-> dataLink])
  ELSE IF ~IsObject(data["_data"])
  THEN Throw(Error("File data '_data' is not JSON"))
  ELSE Ok([data |-> data["_data"], dataLink |-> dataLink])

-----------------------------------------------------------------------------
(* The portal. *)

\* The registry keeps a signature in a field of 64 bytes: of a longer byte
\* string it keeps the first 64.
storedSignature(signature) ==
  Signature(SIGNATURE_LENGTH, signature.signer, signature.digest)

\* The registry accepts an entry for an empty slot, and for a written slot
\* an entry with a revision above the stored one.
accepts(stored, entry) ==
  /\ entry.revision \in Revisions
  /\ IF stored = Null THEN TRUE ELSE entry.revision > stored.revision

\* The honest answer to a registry GET of a slot.
faithfulGet(stored) ==
  IF stored = Null THEN GetErr(AxiosError(TRUE, 404))
  ELSE GetBody(stored.data, stored.revision, stored.signature)

\* A signature of more than 64 bytes, made by nobody.
LongSignature == Signature(SIGNATURE_LENGTH + HASH_LENGTH, "none", Null)

\* The bodies a portal can make up: what some slot holds, or nothing that
\* was ever signed.
KnownBodies ==
  {faithfulGet(registry[t]) : t \in {u \in Slots : registry[u] # Null}}
  \cup {GetBody(EMPTY_SKYLINK, 0, GarbageSignature)}

\* Every answer a portal, honest or not, can give to a registry GET: an
\* error, an incomplete response, a body it knows, or such a body with the
\* data, the revision or the signature replaced.
GetResponses ==
  {GetErr(e) : e \in AxiosErrors} \cup {GetIncomplete} \cup KnownBodies
  \cup {[b EXCEPT !.data = d] : b \in KnownBodies, d \in DataValues}
  \cup {[b EXCEPT !.revision = r] : b \in KnownBodies, r \in Revisions}
  \cup {[b EXCEPT !.signature = g] :
          b \in KnownBodies, g \in {GarbageSignature, LongSignature}}

\* The entry an honest writer with the key of the slot has stored.
honestEntry(slot, privateKey, data, revision) ==
  [data |-> data, revision |-> revision,
   signature |-> signDetached(<<slot[2], data, revision>>, privateKey)]

-----------------------------------------------------------------------------
(* Calls. *)

Procs == {1, 2}

\* The processes of the sequential specification.
SeqProcs == {1}

Ops == {"getEntry", "setEntry", "getJSON", "setJSON", "deleteJSON", "setDataLink"}

WriteOps == {"setJSON", "deleteJSON", "setDataLink"}

\* The write methods of MySky.
MySkyWriteOps ==
  {"MySky.setJSON", "MySky.setDataLink", "MySky.deleteJSON", "setEntryData"}

NoCall ==
  [op |-> "none", privateKey |-> "none", publicKey |-> "none",
   dataKey |-> "none", hashedDataKeyHex |-> FALSE, json |-> Null,
   dataLink |-> Null, entry |-> Null, cachedDataLink |-> Null,
   customOptions |-> Null, signature |-> Null, customPortalUrl |-> FALSE]

NoLoc ==
  [signedEntry |-> Null, skyfile |-> Null, dataLink |-> Null, entry |-> Null,
   signature |-> Null, raised |-> Null, faithful |-> TRUE, content |-> Null,
   connector |-> 0, slot |-> Null, closed |-> FALSE, notified |-> {},
   threw |-> {}, sent |-> {}, answer |-> Null, uiWindow |-> "none",
   uiConnection |-> "none", listener |-> "none", tus |-> "none"]

NoNet ==
  [get |-> 0, post |-> 0, upload |-> 0, download |-> 0, resolve |-> 0,
   delegate |-> 0]

\* No MySky instance yet, and no connector.
NoMySky ==
  [instance |-> Null, connectors |-> 0, pendingPermissions |-> {},
   grantedPermissions |-> {}, dacs |-> {}, added |-> {},
    destroyed |-> {}]

slotOf(c) == <<c.publicKey, wireDataKey(c.dataKey, c.hashedDataKeyHex)>>

\* The options a call passes to getEntry: extractOptions(opts,
\* DEFAULT_GET_ENTRY_OPTIONS), of which the model keeps hashedDataKeyHex.
getEntryOpts(c) == [hashedDataKeyHex |-> c.hashedDataKeyHex]

\* setEntry called with the default options.
setEntryOpts_defaults(c) == [hashedDataKeyHex |-> FALSE]

\* The options a call passes to setEntry or postSignedEntry:
\* extractOptions(opts, DEFAULT_SET_ENTRY_OPTIONS).
setEntryOpts(c) == [hashedDataKeyHex |-> c.hashedDataKeyHex]

\* The slot the GET of a call asks for (getEntryUrlForPortal).
getSlot(c) ==
  <<c.publicKey, wireDataKey(c.dataKey, getEntryOpts(c).hashedDataKeyHex)>>

\* The data links a caller passes to setDataLink.
DataLinkArgs == {SkylinkString(TRUE, 2), SkylinkString(FALSE, 0)}

\* The entries a caller passes to setEntry.
EntryArgs ==
  {[dataKey |-> k, data |-> d, revision |-> r] :
     k \in {"app"}, d \in {Bytes(RAW_SKYLINK_SIZE, 1)},
     r \in {0, 1, MAX_REVISION, MAX_REVISION + 1}}

\* The revisions of the entries the registry holds at the start.
InitRevisions == {0, MAX_REVISION - 1, MAX_REVISION}

InitData == {EMPTY_SKYLINK, Bytes(RAW_SKYLINK_SIZE, 1), Bytes(BASE64_ENCODED_SKYLINK_SIZE, 3)}

\* At the start the registry is empty, or one slot holds an entry that the
\* owner of the slot wrote earlier; the blob store holds what is linked.
\* The client was constructed with or without a portal URL (`portals`), and
\* MySky is in one of the states `myskys`.
InitFrom(portals, myskys) ==
  /\ \E s \in {"pk1"} \X HashedDataKeys, d \in InitData, r \in InitRevisions,
        empty \in BOOLEAN :
       registry =
         [t \in Slots |->
            IF t = s /\ ~empty THEN honestEntry(t, "sk1", d, r) ELSE Null]
  /\ blobs = {ContentList[1], LegacyDoc}
  /\ lastWrite = [t \in Slots |-> Null]
  /\ pc = [p \in Procs |-> "idle"]
  /\ call = [p \in Procs |-> NoCall]
  /\ loc = [p \in Procs |-> NoLoc]
  /\ result = [p \in Procs |-> Null]
  /\ net = [p \in Procs |-> NoNet]
  /\ ncalls = 0
  /\ portal \in {[url |-> u, requests |-> 0, error |-> Null] : u \in portals}
  /\ mysky \in myskys

\* The client was constructed with or without a portal URL, and MySky is
\* not loaded.
InitWith(portals) == InitFrom(portals, {NoMySky})

\* The client was constructed with a portal URL.
Init == InitWith({"custom"})

\* A process may start a call when it is not in one.
CanStart(p) == pc[p] \in {"idle", "done"} /\ ncalls < MaxCalls

\* The call of p ends, returning or throwing `res`.
Finish(p, res) ==
  /\ pc' = [pc EXCEPT ![p] = "done"]
  /\ result' = [result EXCEPT ![p] = res]

\* The call of p starts: `c` is the call, `at` where it suspends first, `l`
\* its locals, `n` the requests it has issued by then and `res` its result
\* so far.
Begin(p, c, at, l, n, res) ==
  /\ call' = [call EXCEPT ![p] = c]
  /\ loc' = [loc EXCEPT ![p] = l]
  /\ net' = [net EXCEPT ![p] = n]
  /\ pc' = [pc EXCEPT ![p] = at]
  /\ result' = [result EXCEPT ![p] = res]
  /\ ncalls' = ncalls + 1
  /\ UNCHANGED <<registry, blobs, lastWrite, portal, mysky>>

ReadCall(op, publicKey, keyArg) ==
  [NoCall EXCEPT !.op = op, !.publicKey = publicKey, !.dataKey = keyArg[1],
                 !.hashedDataKeyHex = keyArg[2]]

WriteCall(op, privateKey, keyArg) ==
  [NoCall EXCEPT !.op = op, !.privateKey = privateKey,
                 !.publicKey = publicKeyOf(privateKey), !.dataKey = keyArg[1],
                 !.hashedDataKeyHex = keyArg[2]]

\* getEntry: the GET is issued.
StartGetEntry(p) ==
  /\ CanStart(p)
  /\ \E publicKey \in PublicKeys, keyArg \in KeyArgs :
       Begin(p, ReadCall("getEntry", publicKey, keyArg), "get", NoLoc,
             [NoNet EXCEPT !.get = 1], Null)

\* getJSON: getSkyDBRegistryEntry issues the GET.
StartGetJSON(p) ==
  /\ CanStart(p)
  /\ \E publicKey \in PublicKeys, keyArg \in KeyArgs :
       Begin(p, ReadCall("getJSON", publicKey, keyArg), "get", NoLoc,
             [NoNet EXCEPT !.get = 1], Null)

\* deleteJSON: getNextRegistryEntry issues the GET.
StartDeleteJSON(p) ==
  /\ CanStart(p)
  /\ \E privateKey \in PrivateKeys, keyArg \in KeyArgs :
       Begin(p, WriteCall("deleteJSON", privateKey, keyArg), "get", NoLoc,
             [NoNet EXCEPT !.get = 1], Null)

\* setDataLink: getNextRegistryEntry issues the GET.
StartSetDataLink(p) ==
  /\ CanStart(p)
  /\ \E privateKey \in PrivateKeys, keyArg \in KeyArgs, dataLink \in DataLinkArgs :
       Begin(p, [WriteCall("setDataLink", privateKey, keyArg)
                   EXCEPT !.dataLink = dataLink],
             "get", NoLoc, [NoNet EXCEPT !.get = 1], Null)

\* setJSON awaiting the upload before it starts the GET.
StartSetJSON_uploadFirst(p) ==
  /\ CanStart(p)
  /\ \E privateKey \in PrivateKeys, keyArg \in KeyArgs, json \in Jsons :
       Begin(p, [WriteCall("setJSON", privateKey, keyArg) EXCEPT !.json = json],
             "fork", NoLoc, [NoNet EXCEPT !.upload = 1], Null)

\* setJSON: getOrCreateRegistryEntry starts the upload and the GET.
StartSetJSON(p) ==
  /\ CanStart(p)
  /\ \E privateKey \in PrivateKeys, keyArg \in KeyArgs, json \in Jsons :
       Begin(p, [WriteCall("setJSON", privateKey, keyArg) EXCEPT !.json = json],
             "fork", NoLoc, [NoNet EXCEPT !.get = 1, !.upload = 1], Null)

\* setEntry: the revision is checked, the entry signed and the POST issued.
StartSetEntry(p) ==
  /\ CanStart(p)
  /\ \E privateKey \in PrivateKeys, entry \in EntryArgs :
       LET c == [WriteCall("setEntry", privateKey, <<entry.dataKey, FALSE>>)
                   EXCEPT !.entry = entry]
       IN IF assertUint64(entry.revision)
          THEN Begin(p, c, "post",
                     [NoLoc EXCEPT !.entry = entry,
                                   !.signature = signEntry(privateKey, entry, FALSE)],
                     [NoNet EXCEPT !.post = 1], Null)
          ELSE Begin(p, c, "done", NoLoc, NoNet,
                     Throw(Error("Argument does not fit in 64 bits")))


\* deleteJSON storing no data instead of the sentinel.
writeData_emptyOnDelete(c, l) ==
  IF c.op = "setJSON" THEN decodeSkylinkBase64(trimUriPrefix(l.skyfile.skylink))
  ELSE IF c.op = "deleteJSON" THEN Bytes(0, 0)
  ELSE decodeSkylink(c.dataLink)

\* setDataLink storing the text of the data link instead of its decoding.
writeData_linkAsText(c, l) ==
  IF c.op = "setJSON" THEN decodeSkylinkBase64(trimUriPrefix(l.skyfile.skylink))
  ELSE IF c.op = "deleteJSON" THEN Bytes(RAW_SKYLINK_SIZE, 0)
  ELSE Bytes(BASE64_ENCODED_SKYLINK_SIZE, c.dataLink.b64)

\* The entry data a write call stores: the skylink of the upload (setJSON),
\* 34 zero bytes (deleteJSON), the decoded data link (setDataLink).
writeData(c, l) ==
  IF c.op = "setJSON" THEN decodeSkylinkBase64(trimUriPrefix(l.skyfile.skylink))
  ELSE IF c.op = "deleteJSON" THEN Bytes(RAW_SKYLINK_SIZE, 0)
  ELSE decodeSkylink(c.dataLink)

\* What a write call returns once its POST is accepted.
writeReturn(c, l) ==
  IF c.op = "setJSON"
  THEN [data |-> c.json,
        dataLink |-> formatSkylink(formatSkylink(trimUriPrefix(l.skyfile.skylink)))]
  ELSE IF c.op = "setEntryData" THEN [data |-> l.entry.data]
  ELSE IF c.op = "MySky.setJSON"
  THEN [data |-> c.json, dataLink |-> formatSkylink(trimUriPrefix(l.skyfile.skylink))]
  ELSE Null

\* The tail of getNextRegistryEntry and getOrCreateRegistryEntry, and
\* setEntry up to its POST: with the fetched entry in l.signedEntry, the
\* next revision is computed, the entry built and signed, the POST issued.
Submit(p, l) ==
  LET c == call[p]
      revision == getNextRevisionFromEntry(l.signedEntry.entry)
      entry == [dataKey |-> c.dataKey, data |-> writeData(c, l),
                revision |-> revision.value]
  IN IF ~revision.ok
     THEN /\ Finish(p, revision)
          /\ loc' = [loc EXCEPT ![p] = l]
          /\ UNCHANGED net
     ELSE IF ~assertUint64(entry.revision)
     THEN /\ Finish(p, Throw(Error("Argument does not fit in 64 bits")))
          /\ loc' = [loc EXCEPT ![p] = l]
          /\ UNCHANGED net
     ELSE /\ loc' = [loc EXCEPT ![p] =
                       [l EXCEPT !.entry = entry,
                                 !.signature =
                                   signEntry(c.privateKey, entry,
                                            setEntryOpts(c).hashedDataKeyHex)]]
          /\ net' = [net EXCEPT ![p].post = @ + 1]
          /\ pc' = [pc EXCEPT ![p] = "post"]
          /\ UNCHANGED result

\* The entry data a write method of MySky stores: the skylink of the upload
\* (setJSON), the decoded data link (setDataLink), 34 zero bytes
\* (deleteJSON), the data given (setEntryData).
mySkyData(c, l) ==
  IF c.op = "MySky.setJSON" THEN decodeSkylinkBase64(trimUriPrefix(l.skyfile.skylink))
  ELSE IF c.op = "MySky.setDataLink" THEN decodeSkylink(c.dataLink)
  ELSE IF c.op = "MySky.deleteJSON" THEN Bytes(RAW_SKYLINK_SIZE, 0)
  ELSE c.entry

\* A write method of MySky once getEntry has returned (and the upload, for
\* setJSON), to the call of the delegate that signs: the next revision is
\* computed, the entry built, and signRegistryEntry called.
Countersign(p, l) ==
  LET c == call[p]
      revision == getNextRevisionFromEntry(l.signedEntry.entry)
  IN IF ~revision.ok
     THEN /\ Finish(p, revision)
          /\ loc' = [loc EXCEPT ![p] = l]
          /\ UNCHANGED net
     ELSE /\ loc' = [loc EXCEPT ![p] =
                       [l EXCEPT !.entry = [dataKey |-> c.dataKey, data |-> mySkyData(c, l),
                                            revision |-> revision.value]]]
          /\ net' = [net EXCEPT ![p].delegate = @ + 1]
          /\ pc' = [pc EXCEPT ![p] = "sign"]
          /\ UNCHANGED result

\* getJSON once getEntry has returned `got`: nothing stored or the deletion
\* sentinel gives null; otherwise the data link is parsed and the download
\* issued.
AfterGetJSON(p, l, got) ==
  LET entry == skyDBRegistryEntry(got.value.entry)
      parsed == parseDataLink(entry.data, call[p].op = "getJSON")
      cached == checkCachedDataLink(parsed.value.rawDataLink, call[p].cachedDataLink)
  IN IF entry = Null
     THEN /\ Finish(p, Ok([data |-> Null, dataLink |-> Null]))
          /\ loc' = [loc EXCEPT ![p] = l]
          /\ UNCHANGED net
     ELSE IF ~parsed.ok
     THEN /\ Finish(p, parsed)
          /\ loc' = [loc EXCEPT ![p] = l]
          /\ UNCHANGED net
     ELSE IF ~cached.ok
     THEN /\ Finish(p, cached)
          /\ loc' = [loc EXCEPT ![p] = l]
          /\ UNCHANGED net
     ELSE IF cached.value
     THEN /\ Finish(p, Ok([data |-> Null, dataLink |-> parsed.value.dataLink]))
          /\ loc' = [loc EXCEPT ![p] = l]
          /\ UNCHANGED net
     ELSE /\ loc' = [loc EXCEPT ![p] = [l EXCEPT !.dataLink = parsed.value.dataLink]]
          /\ net' = [net EXCEPT ![p].download = @ + 1]
          /\ pc' = [pc EXCEPT ![p] = "download"]
          /\ UNCHANGED result

\* The portal answers the registry GET of p, and the call runs on to its
\* next request or to its end.
GetWith(p, responses) ==
  /\ IF pc[p] = "fork" THEN loc[p].signedEntry = Null ELSE pc[p] = "get"
  /\ \E response \in responses :
       LET c == call[p]
           got == getEntryResult(c.publicKey, c.dataKey,
                                 getEntryOpts(c).hashedDataKeyHex, response)
           l == [loc[p] EXCEPT
                   !.slot = getSlot(c),
                   !.faithful = @ /\ response = faithfulGet(registry[getSlot(c)]),
                   !.raised = IF response.type = "error" THEN response.err ELSE Null,
                   !.signedEntry = IF got.ok THEN got.value ELSE Null]
       IN IF ~got.ok \/ c.op = "getEntry"
          THEN /\ Finish(p, got)
               /\ loc' = [loc EXCEPT ![p] = l]
               /\ UNCHANGED net
          ELSE IF c.op \in {"getJSON", "getRawBytes"} THEN AfterGetJSON(p, l, got)
          ELSE IF c.op \in {"setJSON", "MySky.setJSON"} /\ l.skyfile = Null
          THEN /\ loc' = [loc EXCEPT ![p] = l]
               /\ UNCHANGED <<pc, result, net>>
          ELSE IF c.op \in MySkyWriteOps THEN Countersign(p, l)
          ELSE Submit(p, l)
  /\ UNCHANGED <<registry, blobs, lastWrite, call, ncalls, portal, mysky>>

\* The portal answers the registry GET of p.
GetResp(p) == GetWith(p, GetResponses)

\* The answers to an upload: an error, a response without a skylink, or the
\* skylink of the stored content.
UploadResponses ==
  {[type |-> "error", err |-> e] : e \in {AxiosError(TRUE, 500), AxiosError(FALSE, 0)}}
  \cup {[type |-> "incomplete"]}
  \cup {[type |-> "skylink", skylink |-> SkylinkString(FALSE, i)] : i \in {1, 2}}

\* The upload of p (setJSON) is answered with one of `responses`.
UploadWith(p, responses) ==
  /\ pc[p] = "fork"
  /\ loc[p].skyfile = Null
  /\ \E response \in responses :
       LET c == call[p]
           content == fullData(c.json)
       IN IF response.type = "error"
          THEN /\ Finish(p, Throw(response.err))
               /\ UNCHANGED <<loc, net, blobs>>
          ELSE IF response.type = "incomplete"
          THEN /\ Finish(p, Throw(Error("Did not get a complete upload response")))
               /\ UNCHANGED <<loc, net, blobs>>
          ELSE LET l == [loc[p] EXCEPT
                           !.skyfile = [skylink |-> formatSkylink(response.skylink)],
                           !.faithful = @ /\ response.skylink.b64 = linkIdOf(content)]
               IN /\ blobs' = blobs \cup {content}
                  /\ IF l.signedEntry = Null
                     THEN /\ loc' = [loc EXCEPT ![p] = l]
                          /\ UNCHANGED <<pc, result, net>>
                     ELSE IF c.op \in MySkyWriteOps THEN Countersign(p, l)
                     ELSE Submit(p, l)
  /\ UNCHANGED <<registry, lastWrite, call, ncalls, portal, mysky>>

\* The portal answers the upload of p.
UploadResp(p) == UploadWith(p, UploadResponses)

\* The answers to a download: an error, or data that is an object or not.
DownloadResponses ==
  {[type |-> "error", err |-> e] : e \in {AxiosError(TRUE, 404), AxiosError(TRUE, 500)}}
  \cup {[type |-> "data", data |-> d] : d \in Contents \cup {Text}}

\* The honest answer to the download of a skylink.
faithfulDownload(dataLink) ==
  IF dataLink.b64 \in LinkIds /\ ContentList[dataLink.b64] \in blobs
  THEN [type |-> "data", data |-> ContentList[dataLink.b64]]
  ELSE [type |-> "error", err |-> AxiosError(TRUE, 404)]

\* The download of p is answered with one of `responses`, and getJSON runs
\* to its end; the call keeps the data it got in loc[p].content.
DownloadWith(p, responses) ==
  /\ pc[p] = "download"
  /\ \E response \in responses :
       /\ loc' = [loc EXCEPT
                    ![p].faithful = @ /\ response = faithfulDownload(loc[p].dataLink),
                    ![p].content = IF response.type = "data" THEN response.data ELSE Null]
       /\ IF response.type = "error"
          THEN Finish(p, Throw(response.err))
          ELSE IF call[p].op = "getRawBytes"
          THEN Finish(p, Ok([data |-> response.data, dataLink |-> loc[p].dataLink]))
          ELSE Finish(p, jsonFromContent(response.data, loc[p].dataLink))
  /\ UNCHANGED <<registry, blobs, lastWrite, call, net, ncalls, portal, mysky>>

\* The portal answers the download of p (getJSON).
DownloadResp(p) == DownloadWith(p, DownloadResponses)

\* The errors a registry POST fails with.
PostErrors == {AxiosError(TRUE, 400), AxiosError(TRUE, 500), AxiosError(FALSE, 0)}

\* Every POST going to one slot.
postSlot_shared(p) == <<"pk1", hashDataKey("app")>>

\* The slot the POST of p writes: the public key and the data key of the body.
postSlot(p) ==
  <<call[p].publicKey,
    wireDataKey(loc[p].entry.dataKey, setEntryOpts(call[p]).hashedDataKeyHex)>>

\* The portal accepts the POST of p and stores the entry; the call returns.
PostAccept(p) ==
  /\ pc[p] = "post"
  /\ accepts(registry[postSlot(p)], loc[p].entry)
  /\ registry' = [registry EXCEPT ![postSlot(p)] =
                    [data |-> loc[p].entry.data,
                     revision |-> loc[p].entry.revision,
                     signature |-> storedSignature(loc[p].signature)]]
  /\ lastWrite' = [lastWrite EXCEPT ![postSlot(p)] =
                     [op |-> call[p].op, json |-> call[p].json,
                      return |-> writeReturn(call[p], loc[p]),
                      faithful |-> call[p].op = "setJSON" =>
                        loc[p].skyfile.skylink.b64 = linkIdOf(fullData(call[p].json))]]
  /\ Finish(p, Ok(writeReturn(call[p], loc[p])))
  /\ UNCHANGED <<blobs, call, loc, net, ncalls, portal, mysky>>

\* A failed POST sent once more.
PostReject_retry(p) ==
  /\ pc[p] = "post"
  /\ net[p].post < 2
  /\ net' = [net EXCEPT ![p].post = @ + 1]
  /\ UNCHANGED <<registry, blobs, lastWrite, pc, call, loc, result, ncalls, portal, mysky>>

\* A failed POST taken for a success.
PostReject_swallowed(p) ==
  /\ pc[p] = "post"
  /\ Finish(p, Ok(writeReturn(call[p], loc[p])))
  /\ UNCHANGED <<registry, blobs, lastWrite, call, loc, net, ncalls, portal, mysky>>

\* A failed POST whose error is dropped: the call returns nothing.
PostReject_resolved(p) ==
  /\ pc[p] = "post"
  /\ Finish(p, Ok(Null))
  /\ UNCHANGED <<registry, blobs, lastWrite, call, loc, net, ncalls, portal, mysky>>

\* The POST of p fails; the call throws the error of the transport.
PostReject(p) ==
  /\ pc[p] = "post"
  /\ \E err \in PostErrors : Finish(p, Throw(err))
  /\ UNCHANGED <<registry, blobs, lastWrite, call, loc, net, ncalls, portal, mysky>>

Step(p) ==
  \/ StartGetEntry(p)
  \/ StartGetJSON(p)
  \/ StartSetEntry(p)
  \/ StartSetJSON(p)
  \/ StartDeleteJSON(p)
  \/ StartSetDataLink(p)
  \/ GetResp(p)
  \/ UploadResp(p)
  \/ DownloadResp(p)
  \/ PostAccept(p)
  \/ PostReject(p)

Next == \E p \in SeqProcs : Step(p)

Spec == Init /\ [][Next]_vars

-----------------------------------------------------------------------------
(* Reads: getJSON with the cachedDataLink option, of blobs of any shape. *)

\* A string that is no skylink.
BadLink == SkylinkString(FALSE, -1)

\* The values of the cachedDataLink option: none, the link of a stored
\* blob with and without the URI prefix, other links, and no link at all.
CachedArgs ==
  {Null, SkylinkString(TRUE, 1), SkylinkString(FALSE, 1), SkylinkString(TRUE, 2),
   SkylinkString(TRUE, 3), BadLink}

\* Objects with and without the keys _data and _v, with values that count
\* as true or as false, objects or not.
WrapperDocs ==
  {("_data" :> d) @@ ("_v" :> v) :
     d \in {[a |-> Num(1)], Null, Text, Num(0)}, v \in {Num(JSON_RESPONSE_VERSION), Num(0)}}
  \cup {"_data" :> [a |-> Num(1)], "_v" :> Num(JSON_RESPONSE_VERSION)}

\* The answers to a download, the blob being whatever somebody stored.
AnyDownloads ==
  DownloadResponses \cup {[type |-> "data", data |-> d] : d \in WrapperDocs}

\* getJSON with options: getSkyDBRegistryEntry issues the GET.
StartGetJSONCached(p) ==
  /\ CanStart(p)
  /\ \E publicKey \in PublicKeys, keyArg \in KeyArgs, cachedDataLink \in CachedArgs :
       Begin(p, [ReadCall("getJSON", publicKey, keyArg)
                   EXCEPT !.cachedDataLink = cachedDataLink],
             "get", NoLoc, [NoNet EXCEPT !.get = 1], Null)

\* The portal answers the download of p with a blob of any shape.
DownloadAny(p) == DownloadWith(p, AnyDownloads)

ReadNext ==
  \E p \in SeqProcs :
    \/ StartGetJSONCached(p)
    \/ GetResp(p)
    \/ DownloadAny(p)

SpecRead == Init /\ [][ReadNext]_vars

-----------------------------------------------------------------------------
(* Reads of entries with data of any length. *)

\* Entry data one byte shorter and longer than a raw skylink and than a
\* legacy skylink.
OddData ==
  {Bytes(n, 1) : n \in {RAW_SKYLINK_SIZE - 1, RAW_SKYLINK_SIZE + 1,
                        BASE64_ENCODED_SKYLINK_SIZE - 1, BASE64_ENCODED_SKYLINK_SIZE + 1}}

\* Entries of such data and of a legacy skylink, signed by the owner of the
\* slot the call c reads.
SignedBodies(c) ==
  {GetBody(d, 0, signDetached(hashRegistryEntry([dataKey |-> c.dataKey, data |-> d,
                                                 revision |-> 0],
                                                getEntryOpts(c).hashedDataKeyHex),
                              "sk1")) : d \in OddData \cup LegacyLinks}

\* getJSON and getRawBytes: getSkyDBRegistryEntry issues the GET.
StartRead(p) ==
  /\ CanStart(p)
  /\ \E op \in {"getJSON", "getRawBytes"}, publicKey \in PublicKeys, keyArg \in KeyArgs :
       Begin(p, ReadCall(op, publicKey, keyArg), "get", NoLoc,
             [NoNet EXCEPT !.get = 1], Null)

\* The portal answers the GET of p with what it holds or with an entry of
\* data of any length.
GetAnyLength(p) == GetWith(p, GetResponses \cup SignedBodies(call[p]))

LengthNext ==
  \E p \in SeqProcs :
    \/ StartRead(p)
    \/ GetAnyLength(p)
    \/ DownloadResp(p)

SpecLength == Init /\ [][LengthNext]_vars

-----------------------------------------------------------------------------
(* The public functions called with arguments of any shape, by a client   *)
(* that may have to resolve its portal URL first.                         *)

\* A string that is not hexadecimal, and a value that is not a string.
NotHex == "<not hex>"

NotAString == "<not a string>"

\* An options object with a key the function does not know.
BadOptions == [unknown |-> TRUE]

isHexString(value) == value \in PrivateKeys \cup PublicKeys

IsString(value) == value # NotAString

\* validateOptionalObject(customOptions, model)
IsOptions(value) == value = Null

\* validateRegistryEntry: an object with dataKey, data and revision.
IsRegistryEntry(value) == DOMAIN value = {"dataKey", "data", "revision"}

\* validateUint8Array
IsUint8Array(value) == "len" \in DOMAIN value

\* The checks of a function in their order, each a name and whether the
\* value passes: the first that fails is thrown.
validate(checks) ==
  IF \A i \in DOMAIN checks : checks[i][2] THEN Ok(TRUE)
  ELSE LET first == CHOOSE i \in DOMAIN checks :
                      ~checks[i][2] /\ \A j \in 1..(i - 1) : checks[j][2]
       IN Throw(Error(checks[first][1]))

\* What each function checks before its first await.
validateFirst(c) ==
  IF c.op = "getJSON"
  THEN validate(<< <<"customOptions", IsOptions(c.customOptions)>> >>)
  ELSE IF c.op = "setJSON"
  THEN validate(<< <<"privateKey", isHexString(c.privateKey)>>,
                   <<"dataKey", IsString(c.dataKey)>>,
                   <<"json", IsObject(c.json)>>,
                   <<"customOptions", IsOptions(c.customOptions)>> >>)
  ELSE IF c.op = "deleteJSON"
  THEN validate(<< <<"privateKey", isHexString(c.privateKey)>>,
                   <<"dataKey", IsString(c.dataKey)>>,
                   <<"customOptions", IsOptions(c.customOptions)>> >>)
  ELSE IF c.op = "setDataLink"
  THEN validate(<< <<"privateKey", isHexString(c.privateKey)>>,
                   <<"dataKey", IsString(c.dataKey)>>,
                   <<"customOptions", IsOptions(c.customOptions)>>,
                   <<"dataLink", IsSkylinkString(c.dataLink)>> >>)
  ELSE IF c.op = "setEntry"
  THEN validate(<< <<"privateKey", isHexString(c.privateKey)>>,
                   <<"entry", IsRegistryEntry(c.entry)>>,
                   <<"customOptions", IsOptions(c.customOptions)>> >>)
  ELSE IF c.op = "postSignedEntry"
  THEN validate(<< <<"publicKey", isHexString(c.publicKey)>>,
                   <<"entry", IsRegistryEntry(c.entry)>>,
                   <<"signature", IsUint8Array(c.signature)>>,
                   <<"customOptions", IsOptions(c.customOptions)>> >>)
  ELSE IF c.op = "getEntryLink"
  THEN validate(<< <<"publicKey", isHexString(c.publicKey)>>,
                   <<"dataKey", IsString(c.dataKey)>>,
                   <<"customOptions", IsOptions(c.customOptions)>> >>)
  ELSE Ok(TRUE)

\* getEntryUrlForPortal's checks, made once the portal URL is known.
validateEntryUrl(c) ==
  validate(<< <<"publicKey", isHexString(c.publicKey)>>,
              <<"dataKey", IsString(c.dataKey)>>,
              <<"customOptions", IsOptions(c.customOptions)>> >>)

\* The entry link of a slot: the v2 skylink of the public key and the
\* tweak, a link that is the link of no blob.
newSkylinkV2(publicKey, tweak) ==
  SkylinkString(FALSE, 10 + (IF publicKey = "pk1" THEN 0 ELSE 2)
                          + (IF tweak = "h_app" THEN 0 ELSE 1))

\* getEntryLink reading the entry of the slot.
getEntryLink_ofEntry(publicKey, dataKey, hashedDataKeyHex) ==
  LET stored == registry[<<publicKey, wireDataKey(dataKey, hashedDataKeyHex)>>]
  IN IF stored = Null
     THEN formatSkylink(newSkylinkV2(publicKey, wireDataKey(dataKey, hashedDataKeyHex)))
     ELSE formatSkylink(encodeSkylinkBase64(stored.data))

getEntryLink(publicKey, dataKey, hashedDataKeyHex) ==
  formatSkylink(newSkylinkV2(publicKey, wireDataKey(dataKey, hashedDataKeyHex)))

\* A call from the point where the portal URL is known: where it suspends
\* next, its locals, the requests issued, and its result so far.
afterPortal(c) ==
  IF c.op \in {"getEntry", "getJSON"}
  THEN IF validateEntryUrl(c).ok
       THEN [at |-> "get", loc |-> NoLoc, net |-> [NoNet EXCEPT !.get = 1],
             res |-> Null]
       ELSE [at |-> "done", loc |-> NoLoc, net |-> NoNet,
             res |-> validateEntryUrl(c)]
  ELSE IF c.op = "setJSON"
  THEN [at |-> "fork", loc |-> NoLoc,
        net |-> [NoNet EXCEPT !.get = 1, !.upload = 1], res |-> Null]
  ELSE IF c.op = "setEntry"
  THEN [at |-> "post",
        loc |-> [NoLoc EXCEPT !.entry = c.entry,
                              !.signature = signEntry(c.privateKey, c.entry,
                                                      c.hashedDataKeyHex)],
        net |-> [NoNet EXCEPT !.post = 1], res |-> Null]
  ELSE IF c.op = "postSignedEntry"
  THEN [at |-> "post",
        loc |-> [NoLoc EXCEPT !.entry = c.entry, !.signature = c.signature],
        net |-> [NoNet EXCEPT !.post = 1], res |-> Null]
  ELSE [at |-> "get", loc |-> NoLoc, net |-> [NoNet EXCEPT !.get = 1],
        res |-> Null]

\* The call c of p starts: its first checks are made; getEntryLink then
\* returns; any other call needs the portal URL, which is there, or for
\* which the HEAD request is issued if no call has issued it yet.
Enter(p, c) ==
  LET first == IF validateFirst(c).ok /\ c.op = "setEntry"
                  /\ ~assertUint64(c.entry.revision)
               THEN Throw(Error("Argument does not fit in 64 bits"))
               ELSE validateFirst(c)
      known == afterPortal(c)
  IN /\ CanStart(p)
     /\ call' = [call EXCEPT ![p] = c]
     /\ ncalls' = ncalls + 1
     /\ IF ~first.ok
        THEN /\ pc' = [pc EXCEPT ![p] = "done"]
             /\ result' = [result EXCEPT ![p] = first]
             /\ loc' = [loc EXCEPT ![p] = NoLoc]
             /\ net' = [net EXCEPT ![p] = NoNet]
             /\ UNCHANGED portal
        ELSE IF c.op = "getEntryLink"
        THEN /\ pc' = [pc EXCEPT ![p] = "done"]
             /\ result' = [result EXCEPT ![p] =
                             Ok(getEntryLink(c.publicKey, c.dataKey, c.hashedDataKeyHex))]
             /\ loc' = [loc EXCEPT ![p] = NoLoc]
             /\ net' = [net EXCEPT ![p] = NoNet]
             /\ UNCHANGED portal
        ELSE IF portal.url \in {"custom", "resolved"}
        THEN /\ pc' = [pc EXCEPT ![p] = known.at]
             /\ result' = [result EXCEPT ![p] = known.res]
             /\ loc' = [loc EXCEPT ![p] = known.loc]
             /\ net' = [net EXCEPT ![p] = known.net]
             /\ UNCHANGED portal
        ELSE /\ pc' = [pc EXCEPT ![p] = "resolve"]
             /\ result' = [result EXCEPT ![p] = Null]
             /\ loc' = [loc EXCEPT ![p] = NoLoc]
             /\ net' = [net EXCEPT ![p] =
                          [NoNet EXCEPT !.resolve =
                                          IF portal.url = "unresolved" THEN 1 ELSE 0]]
             /\ portal' = IF portal.url = "unresolved"
                          THEN [portal EXCEPT !.url = "resolving", !.requests = @ + 1]
                          ELSE portal
     /\ UNCHANGED <<registry, blobs, lastWrite, mysky>>

\* The arguments callers pass, well-formed or not.
PublicKeyArgs == {"pk1", NotHex}

PrivateKeyArgs == {"sk1", NotHex}

DataKeyArgs == {"app", NotAString}

OptionsArgs == {Null, BadOptions}

\* A call has at most one malformed argument: `bad` tells of each argument
\* whether it is malformed.
AtMostOne(bad) == Cardinality({i \in DOMAIN bad : bad[i]}) <= 1

ApiCall(op, publicKey, dataKey, customOptions) ==
  [NoCall EXCEPT !.op = op, !.publicKey = publicKey, !.dataKey = dataKey,
                 !.customOptions = customOptions]

ApiWriteCall(op, privateKey, dataKey, customOptions) ==
  [ApiCall(op, IF isHexString(privateKey) THEN publicKeyOf(privateKey) ELSE NotHex,
           dataKey, customOptions)
     EXCEPT !.privateKey = privateKey]

ApiGetEntry(p) ==
  \E publicKey \in PublicKeyArgs, dataKey \in DataKeyArgs, customOptions \in OptionsArgs :
    /\ AtMostOne(<<~isHexString(publicKey), ~IsString(dataKey), ~IsOptions(customOptions)>>)
    /\ Enter(p, ApiCall("getEntry", publicKey, dataKey, customOptions))

ApiGetJSON(p) ==
  \E publicKey \in PublicKeyArgs, dataKey \in DataKeyArgs, customOptions \in OptionsArgs,
     cachedDataLink \in {Null, BadLink} :
    /\ AtMostOne(<<~isHexString(publicKey), ~IsString(dataKey), ~IsOptions(customOptions),
                   cachedDataLink # Null>>)
    /\ Enter(p, [ApiCall("getJSON", publicKey, dataKey, customOptions)
                EXCEPT !.cachedDataLink = cachedDataLink])

ApiGetEntryLink(p) ==
  \E publicKey \in PublicKeyArgs \cup {"pk2"}, keyArg \in KeyArgs \cup {<<NotAString, FALSE>>},
     customOptions \in OptionsArgs :
    /\ AtMostOne(<<~isHexString(publicKey), ~IsString(keyArg[1]), ~IsOptions(customOptions)>>)
    /\ Enter(p, [ApiCall("getEntryLink", publicKey, keyArg[1], customOptions)
                EXCEPT !.hashedDataKeyHex = keyArg[2]])

ApiSetJSON(p) ==
  \E privateKey \in PrivateKeyArgs, dataKey \in DataKeyArgs, customOptions \in OptionsArgs,
     json \in {[a |-> Num(1)], Text} :
    /\ AtMostOne(<<~isHexString(privateKey), ~IsString(dataKey), ~IsOptions(customOptions),
                   ~IsObject(json)>>)
    /\ Enter(p, [ApiWriteCall("setJSON", privateKey, dataKey, customOptions)
                EXCEPT !.json = json])

ApiDeleteJSON(p) ==
  \E privateKey \in PrivateKeyArgs, dataKey \in DataKeyArgs, customOptions \in OptionsArgs :
    /\ AtMostOne(<<~isHexString(privateKey), ~IsString(dataKey), ~IsOptions(customOptions)>>)
    /\ Enter(p, ApiWriteCall("deleteJSON", privateKey, dataKey, customOptions))

ApiSetDataLink(p) ==
  \E privateKey \in PrivateKeyArgs, dataKey \in DataKeyArgs, customOptions \in OptionsArgs,
     dataLink \in {SkylinkString(TRUE, 2), BadLink} :
    /\ AtMostOne(<<~isHexString(privateKey), ~IsString(dataKey), ~IsOptions(customOptions),
                   ~IsSkylinkString(dataLink)>>)
    /\ Enter(p, [ApiWriteCall("setDataLink", privateKey, dataKey, customOptions)
                EXCEPT !.dataLink = dataLink])

\* The entries a caller passes to setEntry and postSignedEntry, and a value
\* that is no entry.
ApiEntryArgs ==
  {[dataKey |-> "app", data |-> Bytes(RAW_SKYLINK_SIZE, 1), revision |-> r] :
     r \in {0, MAX_REVISION, MAX_REVISION + 1}} \cup {Text}

ApiSetEntry(p) ==
  \E privateKey \in PrivateKeyArgs, entry \in ApiEntryArgs, customOptions \in OptionsArgs :
    /\ AtMostOne(<<~isHexString(privateKey), ~IsRegistryEntry(entry), ~IsOptions(customOptions)>>)
    /\ Enter(p, [ApiWriteCall("setEntry", privateKey, "app", customOptions)
                EXCEPT !.entry = entry])

\* postSignedEntry: the signature is the owner's signature of the entry,
\* made elsewhere, or no byte array.
ApiPostSignedEntry(p) ==
  \E publicKey \in PublicKeyArgs, entry \in ApiEntryArgs, customOptions \in OptionsArgs,
     signed \in BOOLEAN :
    /\ AtMostOne(<<~isHexString(publicKey), ~IsRegistryEntry(entry), ~IsOptions(customOptions),
                   ~signed>>)
    /\ Enter(p, [ApiCall("postSignedEntry", publicKey, "app", customOptions)
                EXCEPT !.entry = entry,
                       !.signature =
                         IF signed /\ IsRegistryEntry(entry)
                         THEN signDetached(hashRegistryEntry(entry, FALSE), "sk1")
                         ELSE Text])

\* The portal answers the HEAD request for the portal URL, or does not, or
\* the request was settled before: the call of p goes on from there, or
\* fails.
ResolveResp(p) ==
  /\ pc[p] = "resolve"
  /\ \E ok \in IF portal.url = "resolving" THEN BOOLEAN
               ELSE {portal.url = "resolved"} :
       IF ok
       THEN /\ portal' = [portal EXCEPT !.url = "resolved"]
            /\ pc' = [pc EXCEPT ![p] = afterPortal(call[p]).at]
            /\ result' = [result EXCEPT ![p] = afterPortal(call[p]).res]
            /\ loc' = [loc EXCEPT ![p] = afterPortal(call[p]).loc]
            /\ net' = [net EXCEPT ![p] =
                         [afterPortal(call[p]).net EXCEPT !.resolve = net[p].resolve]]
       ELSE /\ portal' = [portal EXCEPT !.url = "failed",
                                         !.error = IF @ = Null THEN AxiosError(FALSE, 0) ELSE @]
            /\ Finish(p, Throw(AxiosError(FALSE, 0)))
            /\ UNCHANGED <<loc, net>>
  /\ UNCHANGED <<registry, blobs, lastWrite, call, ncalls, mysky>>

ApiStep(p) ==
  \/ ApiGetEntry(p)
  \/ ApiGetJSON(p)
  \/ ApiGetEntryLink(p)
  \/ ApiSetJSON(p)
  \/ ApiDeleteJSON(p)
  \/ ApiSetDataLink(p)
  \/ ApiSetEntry(p)
  \/ ApiPostSignedEntry(p)
  \/ ResolveResp(p)
  \/ GetResp(p)
  \/ UploadResp(p)
  \/ DownloadResp(p)
  \/ PostAccept(p)
  \/ PostReject(p)

ApiNext == \E p \in SeqProcs : ApiStep(p)

SpecApi == InitWith({"custom", "unresolved"}) /\ [][ApiNext]_vars

-----------------------------------------------------------------------------
(* The portal URL, asked for by callers that may overlap, of clients made *)
(* with and without a portal URL.                                         *)

\* A failed resolution tried again by the next caller.
StartPortalUrl_retryFailed(p) ==
  /\ CanStart(p)
  /\ \E op \in {"portalUrl", "initPortalUrl"}, custom \in BOOLEAN :
       /\ call' = [call EXCEPT ![p] = [NoCall EXCEPT !.op = op,
                                                     !.customPortalUrl = custom]]
       /\ loc' = [loc EXCEPT ![p] = NoLoc]
       /\ ncalls' = ncalls + 1
       /\ IF custom
          THEN /\ Finish(p, Ok([url |-> IF op = "portalUrl" THEN "custom" ELSE "none"]))
               /\ net' = [net EXCEPT ![p] = NoNet]
               /\ UNCHANGED portal
          ELSE IF portal.url \in {"unresolved", "failed"}
          THEN /\ portal' = [portal EXCEPT !.url = "resolving", !.requests = @ + 1]
               /\ net' = [net EXCEPT ![p] = [NoNet EXCEPT !.resolve = 1]]
               /\ pc' = [pc EXCEPT ![p] = "resolve"]
               /\ result' = [result EXCEPT ![p] = Null]
          ELSE /\ net' = [net EXCEPT ![p] = NoNet]
               /\ pc' = [pc EXCEPT ![p] = "resolve"]
               /\ result' = [result EXCEPT ![p] = Null]
               /\ UNCHANGED portal
  /\ UNCHANGED <<registry, blobs, lastWrite, mysky>>

\* portalUrl and initPortalUrl asking for the portal URL whenever it is not
\* there yet.
StartPortalUrl_unshared(p) ==
  /\ CanStart(p)
  /\ \E op \in {"portalUrl", "initPortalUrl"}, custom \in BOOLEAN :
       /\ call' = [call EXCEPT ![p] = [NoCall EXCEPT !.op = op,
                                                     !.customPortalUrl = custom]]
       /\ loc' = [loc EXCEPT ![p] = NoLoc]
       /\ ncalls' = ncalls + 1
       /\ IF custom
          THEN /\ Finish(p, Ok([url |-> IF op = "portalUrl" THEN "custom" ELSE "none"]))
               /\ net' = [net EXCEPT ![p] = NoNet]
               /\ UNCHANGED portal
          ELSE IF portal.url \in {"unresolved", "resolving"}
          THEN /\ portal' = [portal EXCEPT !.url = "resolving", !.requests = @ + 1]
               /\ net' = [net EXCEPT ![p] = [NoNet EXCEPT !.resolve = 1]]
               /\ pc' = [pc EXCEPT ![p] = "resolve"]
               /\ result' = [result EXCEPT ![p] = Null]
          ELSE /\ net' = [net EXCEPT ![p] = NoNet]
               /\ pc' = [pc EXCEPT ![p] = "resolve"]
               /\ result' = [result EXCEPT ![p] = Null]
               /\ UNCHANGED portal
  /\ UNCHANGED <<registry, blobs, lastWrite, mysky>>

\* portalUrl() and initPortalUrl() of a client made with a portal URL
\* (custom) or without: the first returns at once; the second calls
\* resolvePortalUrl, which issues the HEAD request, if
\* SkynetClient.resolvedPortalUrl is not set, and awaits it.
StartPortalUrl(p) ==
  /\ CanStart(p)
  /\ \E op \in {"portalUrl", "initPortalUrl"}, custom \in BOOLEAN :
       /\ call' = [call EXCEPT ![p] = [NoCall EXCEPT !.op = op,
                                                     !.customPortalUrl = custom]]
       /\ loc' = [loc EXCEPT ![p] = NoLoc]
       /\ ncalls' = ncalls + 1
       /\ IF custom
          THEN /\ Finish(p, Ok([url |-> IF op = "portalUrl" THEN "custom" ELSE "none"]))
               /\ net' = [net EXCEPT ![p] = NoNet]
               /\ UNCHANGED portal
          ELSE IF portal.url = "unresolved"
          THEN /\ portal' = [portal EXCEPT !.url = "resolving", !.requests = @ + 1]
               /\ net' = [net EXCEPT ![p] = [NoNet EXCEPT !.resolve = 1]]
               /\ pc' = [pc EXCEPT ![p] = "resolve"]
               /\ result' = [result EXCEPT ![p] = Null]
          ELSE /\ net' = [net EXCEPT ![p] = NoNet]
               /\ pc' = [pc EXCEPT ![p] = "resolve"]
               /\ result' = [result EXCEPT ![p] = Null]
               /\ UNCHANGED portal
  /\ UNCHANGED <<registry, blobs, lastWrite, mysky>>

\* What resolvePortalUrl throws: the error of its request, or that of a
\* response without the header of the portal URL.
ResolveErrors ==
  {AxiosError(FALSE, 0), Error("Could not get portal URL for the given portal")}

\* The HEAD request is answered with the portal URL, or resolvePortalUrl
\* throws: the promise in SkynetClient.resolvedPortalUrl is settled.
HeadResp ==
  /\ portal.url = "resolving"
  /\ \E response \in {Null} \cup ResolveErrors :
       portal' = [portal EXCEPT !.url = IF response = Null THEN "resolved" ELSE "failed",
                                !.error = response]
  /\ UNCHANGED <<registry, blobs, lastWrite, pc, call, loc, result, net, ncalls, mysky>>

\* A call awaiting SkynetClient.resolvedPortalUrl goes on when it is
\* settled: portalUrl returns the URL, initPortalUrl nothing, and both throw
\* what the request failed with.
PortalAwaited(p) ==
  /\ pc[p] = "resolve"
  /\ portal.url \in {"resolved", "failed"}
  /\ IF portal.url = "failed" THEN Finish(p, Throw(portal.error))
     ELSE Finish(p, Ok([url |-> IF call[p].op = "portalUrl" THEN "resolved" ELSE "none"]))
  /\ UNCHANGED <<registry, blobs, lastWrite, call, loc, net, ncalls, portal, mysky>>

PortalNext ==
  \/ \E p \in Procs : StartPortalUrl(p) \/ PortalAwaited(p)
  \/ HeadResp

SpecPortal == InitWith({"unresolved"}) /\ [][PortalNext]_vars

-----------------------------------------------------------------------------
(* The revision on the wire: postSignedEntry's request body and getEntry's *)
(* response body, as JSON text.  A JSON value is a token: a string or a    *)
(* number, with its characters; the revision's are decimal digits.         *)

\* Revisions on the wire have WireBits bits, and a JavaScript number holds
\* integers of SafeBits bits exactly (64 and 53, scaled down).
WireBits == 7

SafeBits == 5

WireRevisions == 0..(2^WireBits - 1)

RECURSIVE toDigits(_)
\* BigInt.prototype.toString(): the decimal digits, most significant first.
toDigits(n) == IF n < 10 THEN <<n>> ELSE Append(toDigits(n \div 10), n % 10)

RECURSIVE fromDigits(_)
\* BigInt(string), and the portal's parsing of an unsigned integer.
fromDigits(digits) ==
  IF Len(digits) = 1 THEN digits[1]
  ELSE 10 * fromDigits(SubSeq(digits, 1, Len(digits) - 1)) + digits[Len(digits)]

StringToken(text) == [kind |-> "string", text |-> text]

NumberToken(text) == [kind |-> "number", text |-> text]

RECURSIVE spacing(_)
\* The distance between neighbouring JavaScript numbers at n.
spacing(n) == IF n < 2^SafeBits THEN 1 ELSE 2 * spacing(n \div 2)

\* The JavaScript number nearest to the integer n (ties to even).
jsNumber(n) ==
  LET s == spacing(n)
      q == n \div s
      rem == n % s
  IN IF 2 * rem < s THEN q * s
     ELSE IF 2 * rem > s THEN (q + 1) * s
     ELSE IF q % 2 = 0 THEN q * s ELSE (q + 1) * s

\* postSignedEntry's transformRequest, for the "revision" member of the
\* stringified body: REGEX_REVISION_WITH_QUOTES drops the quotes of a string
\* of digits.
transformRequest(revision) ==
  IF revision.kind = "string" /\ Len(revision.text) > 0
  THEN NumberToken(revision.text)
  ELSE revision

\* The "revision" member of the body postSignedEntry sends.
postedRevision(entry) == transformRequest(StringToken(toDigits(entry.revision)))

\* getEntry parsing the body as it came.
transformResponse_asIs(revision) ==
  IF revision.kind = "number"
  THEN [kind |-> "number", value |-> jsNumber(fromDigits(revision.text))]
  ELSE [kind |-> "string", value |-> revision.text]

\* getEntry's transformResponse, for the "revision" member of the body:
\* REGEX_REVISION_NO_QUOTES puts a JSON integer in quotes, and JSON.parse
\* gives a string for a string and a number for a number.
transformResponse(revision) ==
  LET quoted == IF revision.kind = "number" THEN StringToken(revision.text)
                ELSE revision
  IN IF quoted.kind = "number"
     THEN [kind |-> "number", value |-> jsNumber(fromDigits(quoted.text))]
     ELSE [kind |-> "string", value |-> quoted.text]

\* getEntry from the parsed "revision" member on: it has to be a string,
\* and BigInt converts it.
receivedRevision(revision) ==
  IF transformResponse(revision).kind # "string"
  THEN Throw(Error("Did not get a complete entry response"))
  ELSE Ok([revision |-> fromDigits(transformResponse(revision).value)])

\* postSignedEntry with an entry of any revision of the range: the body is
\* on the wire.
WirePost(p) ==
  /\ CanStart(p)
  /\ \E revision \in WireRevisions :
       LET entry == [dataKey |-> "app", data |-> EMPTY_SKYLINK, revision |-> revision]
       IN Begin(p, [NoCall EXCEPT !.op = "wire", !.entry = entry], "wire.post",
                [NoLoc EXCEPT !.content = postedRevision(entry)],
                [NoNet EXCEPT !.post = 1], Null)

\* The portal reads the unsigned integer of the body, if it is one, and
\* sends it back in the body of a later GET as a JSON integer.
WireServe(p) ==
  /\ pc[p] = "wire.post"
  /\ IF loc[p].content.kind = "number"
     THEN /\ loc' = [loc EXCEPT ![p].content =
                       NumberToken(toDigits(fromDigits(loc[p].content.text)))]
          /\ net' = [net EXCEPT ![p].get = 1]
          /\ pc' = [pc EXCEPT ![p] = "wire.get"]
          /\ UNCHANGED result
     ELSE /\ Finish(p, Throw(AxiosError(TRUE, 400)))
          /\ UNCHANGED <<loc, net>>
  /\ UNCHANGED <<registry, blobs, lastWrite, call, ncalls, portal, mysky>>

\* getEntry reads the revision of the body.
WireGet(p) ==
  /\ pc[p] = "wire.get"
  /\ Finish(p, receivedRevision(loc[p].content))
  /\ UNCHANGED <<registry, blobs, lastWrite, call, loc, net, ncalls, portal, mysky>>

WireNext == \E p \in SeqProcs : WirePost(p) \/ WireServe(p) \/ WireGet(p)

SpecWire == Init /\ [][WireNext]_vars

-----------------------------------------------------------------------------
(* Two writers of one slot. *)

\* setJSON on the slot of ("sk1", "app"), each caller with a document of its
\* own.
StartSetJSONSlot(p) ==
  /\ CanStart(p)
  /\ \E json \in {[a |-> Num(p)]} \cap Jsons :
       Begin(p, [WriteCall("setJSON", "sk1", <<"app", FALSE>>) EXCEPT !.json = json],
             "fork", NoLoc, [NoNet EXCEPT !.get = 1, !.upload = 1], Null)

ConcNext ==
  \E p \in Procs :
    \/ StartSetJSONSlot(p)
    \/ GetResp(p)
    \/ UploadResp(p)
    \/ PostAccept(p)
    \/ PostReject(p)

SpecConc == Init /\ [][ConcNext]_vars

-----------------------------------------------------------------------------
(* Two callers, each with a slot of its own, and a portal that answers    *)
(* every request, and honestly.                                           *)

\* The data key of the caller p.
ownKey(p) == IF p = 1 THEN <<"app", FALSE>> ELSE <<"h_app", FALSE>>

\* The calls p makes on its slot.
OwnCalls(p) ==
  {ReadCall(op, "pk1", ownKey(p)) : op \in {"getEntry", "getJSON"}}
  \cup {[WriteCall("setJSON", "sk1", ownKey(p)) EXCEPT !.json = json] : json \in Jsons}
  \cup {WriteCall("deleteJSON", "sk1", ownKey(p))}
  \cup {[WriteCall("setDataLink", "sk1", ownKey(p)) EXCEPT !.dataLink = dataLink] :
          dataLink \in DataLinkArgs}

\* p calls a function on its slot: the first requests are issued.
StartOwnSlot(p) ==
  /\ CanStart(p)
  /\ \E c \in OwnCalls(p) :
       Begin(p, c, afterPortal(c).at, afterPortal(c).loc, afterPortal(c).net,
             afterPortal(c).res)

GetHonest(p) == GetWith(p, {faithfulGet(registry[getSlot(call[p])])})

UploadHonest(p) ==
  UploadWith(p, {[type |-> "skylink",
                  skylink |-> SkylinkString(FALSE, linkIdOf(fullData(call[p].json)))]})

DownloadHonest(p) == DownloadWith(p, {faithfulDownload(loc[p].dataLink)})

SlotsNext ==
  \E p \in Procs :
    \/ StartOwnSlot(p)
    \/ GetHonest(p)
    \/ UploadHonest(p)
    \/ DownloadHonest(p)
    \/ PostAccept(p)

SpecSlots == Init /\ [][SlotsNext]_vars

-----------------------------------------------------------------------------
(* MySky: loading the instance, by callers that may overlap, and          *)
(* setEntryData through the instance.                                     *)

MAX_ENTRY_LENGTH == 70

\* loadMySky / MySky.New: the instance is returned if there is one;
\* otherwise Connector.init is called, which first awaits the URL of the
\* MySky domain.
StartLoadMySky(p) ==
  /\ CanStart(p)
  /\ IF mysky.instance # Null
     THEN Begin(p, [NoCall EXCEPT !.op = "loadMySky"], "done", NoLoc, NoNet,
                Ok(mysky.instance))
     ELSE Begin(p, [NoCall EXCEPT !.op = "loadMySky"], "domain", NoLoc, NoNet, Null)

\* Connector.init creates the iframe and starts the handshake with it.
ConnectorFrame(p) ==
  /\ pc[p] = "domain"
  /\ mysky' = [mysky EXCEPT !.connectors = @ + 1]
  /\ loc' = [loc EXCEPT ![p].connector = mysky.connectors + 1]
  /\ pc' = [pc EXCEPT ![p] = "handshake"]
  /\ UNCHANGED <<registry, blobs, lastWrite, call, result, net, ncalls, portal>>

\* The handshake completes, or fails after its attempts; then the host
\* domain is awaited.
Handshake(p) ==
  /\ pc[p] = "handshake"
  /\ \E ok \in BOOLEAN :
       IF ok
       THEN pc' = [pc EXCEPT ![p] = "host"] /\ UNCHANGED result
       ELSE Finish(p, Throw(Error("handshake failed")))
  /\ UNCHANGED <<registry, blobs, lastWrite, call, loc, net, ncalls, portal, mysky>>

\* MySky.New makes the instance of its connector, stores it in
\* MySky.instance and returns it.
NewInstance(p) ==
  /\ pc[p] = "host"
  /\ mysky' = [mysky EXCEPT !.instance = [connector |-> loc[p].connector]]
  /\ Finish(p, Ok([connector |-> loc[p].connector]))
  /\ UNCHANGED <<registry, blobs, lastWrite, call, loc, net, ncalls, portal>>

\* The entry data callers pass to setEntryData: a raw skylink, and data of
\* the greatest length allowed and one byte more.
EntryDataArgs ==
  {Bytes(RAW_SKYLINK_SIZE, 1), Bytes(MAX_ENTRY_LENGTH, 4), Bytes(MAX_ENTRY_LENGTH + 1, 4)}

\* setEntryData rejecting data of the greatest length too.
validateEntryData_strict(data) ==
  IF data.len >= MAX_ENTRY_LENGTH THEN Throw(Error("data: length <= 70"))
  ELSE Ok(TRUE)

\* The length check of setEntryData.
validateEntryData(data) ==
  IF data.len > MAX_ENTRY_LENGTH THEN Throw(Error("data: length <= 70"))
  ELSE Ok(TRUE)

\* MySky.setEntryData(path, data) on the loaded instance: the data is
\* checked and the delegate asked for the user ID.  The data key is the
\* tweak of the path, a hashed key.
StartSetEntryData(p) ==
  /\ CanStart(p)
  /\ mysky.instance # Null
  /\ \E data \in EntryDataArgs :
       LET c == [NoCall EXCEPT !.op = "setEntryData", !.dataKey = "h_app",
                               !.hashedDataKeyHex = TRUE, !.entry = data]
       IN IF validateEntryData(data).ok
          THEN Begin(p, c, "userID", NoLoc, [NoNet EXCEPT !.delegate = 1], Null)
          ELSE Begin(p, c, "done", NoLoc, NoNet, validateEntryData(data))

\* MySky.setJSON(path, json), MySky.setDataLink(path, dataLink) and
\* MySky.deleteJSON(path) on the loaded instance: the delegate is asked for
\* the user ID.
StartMySkyWrite(p) ==
  /\ CanStart(p)
  /\ mysky.instance # Null
  /\ \E c \in {[NoCall EXCEPT !.op = "MySky.setJSON", !.json = json] : json \in Jsons}
             \cup {[NoCall EXCEPT !.op = "MySky.setDataLink", !.dataLink = dataLink] :
                     dataLink \in DataLinkArgs}
             \cup {[NoCall EXCEPT !.op = "MySky.deleteJSON"]} :
       Begin(p, [c EXCEPT !.dataKey = "h_app", !.hashedDataKeyHex = TRUE],
             "userID", NoLoc, [NoNet EXCEPT !.delegate = 1], Null)

\* The delegate answers userID, and getNextRegistryEntry issues the GET, or
\* getOrCreateRegistryEntry the upload and the GET; or the call of the
\* delegate fails.
UserIDResp(p) ==
  /\ pc[p] = "userID"
  /\ \E ok \in BOOLEAN :
       IF ok
       THEN /\ call' = [call EXCEPT ![p].publicKey = "pk1"]
            /\ net' = [net EXCEPT ![p].get = @ + 1,
                                  ![p].upload = IF call[p].op = "MySky.setJSON"
                                                THEN @ + 1 ELSE @]
            /\ pc' = [pc EXCEPT ![p] = IF call[p].op = "MySky.setJSON"
                                       THEN "fork" ELSE "get"]
            /\ UNCHANGED result
       ELSE /\ Finish(p, Throw(Error("delegate call failed")))
            /\ UNCHANGED <<call, net>>
  /\ UNCHANGED <<registry, blobs, lastWrite, loc, ncalls, portal, mysky>>

\* The POST issued whatever the delegate answers.
SignResp_unsigned(p) ==
  /\ pc[p] = "sign"
  /\ \E ok \in BOOLEAN :
       /\ loc' = [loc EXCEPT ![p].signature =
                    IF ok THEN signDetached(hashRegistryEntry(loc[p].entry, TRUE), "sk1")
                    ELSE Null]
       /\ net' = [net EXCEPT ![p].post = @ + 1]
       /\ pc' = [pc EXCEPT ![p] = "post"]
       /\ UNCHANGED result
  /\ UNCHANGED <<registry, blobs, lastWrite, call, ncalls, portal, mysky>>

\* The delegate answers signRegistryEntry with the user's signature, and
\* postSignedEntry issues the POST; or the delegate refuses.
SignResp(p) ==
  /\ pc[p] = "sign"
  /\ \E ok \in BOOLEAN :
       IF ok
       THEN /\ loc' = [loc EXCEPT ![p].signature =
                         signDetached(hashRegistryEntry(loc[p].entry, TRUE), "sk1")]
            /\ net' = [net EXCEPT ![p].post = @ + 1]
            /\ pc' = [pc EXCEPT ![p] = "post"]
            /\ UNCHANGED result
       ELSE /\ Finish(p, Throw(Error("permission denied")))
            /\ UNCHANGED <<loc, net>>
  /\ UNCHANGED <<registry, blobs, lastWrite, call, ncalls, portal, mysky>>

\* Any caller may load MySky at any time; the first caller uses it.
MySkyNext ==
  \/ \E p \in Procs :
       \/ StartLoadMySky(p)
       \/ ConnectorFrame(p)
       \/ Handshake(p)
       \/ NewInstance(p)
  \/ \E p \in SeqProcs :
       \/ StartSetEntryData(p)
       \/ StartMySkyWrite(p)
       \/ UserIDResp(p)
       \/ GetResp(p)
       \/ UploadResp(p)
       \/ SignResp(p)
       \/ PostAccept(p)
       \/ PostReject(p)

SpecMySky == Init /\ [][MySkyNext]_vars

-----------------------------------------------------------------------------
(* MySky: logging in, with DACs loaded. *)

\* The permissions MySky.New asks for when it is given a skapp domain, and
\* the permission a DAC asks for.
SkappPermissions == {"discoverable write", "hidden read", "hidden write"}

DacPermissions == {"dac"}

Dacs == {"dac1", "dac2"}

\* The instance as its constructor leaves it: no DACs, nothing granted, and
\* pending the permissions it was given.
NewMySky ==
  {[instance |-> [connector |-> 1], connectors |-> 1, pendingPermissions |-> perms,
    grantedPermissions |-> {}, dacs |-> {}, added |-> {},
    destroyed |-> {}] : perms \in {{}, SkappPermissions}}

\* loadDacs: the DACs are in the list before their init is over.
StartLoadDacs(p) ==
  /\ CanStart(p)
  /\ \E dacs \in (SUBSET Dacs) \ {{}} :
       /\ mysky' = [mysky EXCEPT !.dacs = @ \cup dacs]
       /\ call' = [call EXCEPT ![p] = [NoCall EXCEPT !.op = "loadDacs"]]
       /\ loc' = [loc EXCEPT ![p] = NoLoc]
       /\ net' = [net EXCEPT ![p] = NoNet]
       /\ pc' = [pc EXCEPT ![p] = "dacs.init"]
       /\ result' = [result EXCEPT ![p] = Null]
       /\ ncalls' = ncalls + 1
  /\ UNCHANGED <<registry, blobs, lastWrite, portal>>

\* loadDac: the init of the DACs is over and their permissions are added to
\* the pending ones, or an init fails.
DacsInit(p) ==
  /\ pc[p] = "dacs.init"
  /\ \E ok \in BOOLEAN :
       IF ok
       THEN /\ mysky' = [mysky EXCEPT !.pendingPermissions = @ \cup DacPermissions,
                                      !.added = @ \cup DacPermissions]
            /\ Finish(p, Ok(Null))
       ELSE /\ Finish(p, Throw(Error("init failed")))
            /\ UNCHANGED mysky
  /\ UNCHANGED <<registry, blobs, lastWrite, call, loc, net, ncalls, portal>>

\* checkLogin: the delegate is called with the pending permissions.
StartCheckLogin(p) ==
  /\ CanStart(p)
  /\ Begin(p, [NoCall EXCEPT !.op = "checkLogin"], "login.call",
           [NoLoc EXCEPT !.sent = mysky.pendingPermissions],
           [NoNet EXCEPT !.delegate = 1], Null)

\* The clean-up of requestLoginAccess leaving the window open.
finally_keepsWindow(l) ==
  [l EXCEPT !.uiConnection = IF @ = "open" THEN "closed" ELSE @,
            !.listener = "off"]

\* The clean-up of requestLoginAccess, run when its promise has settled:
\* the window is closed if one was opened, the connection if one was
\* established, and the listener for window errors is removed.
finally(l) ==
  [l EXCEPT !.uiWindow = IF @ = "open" THEN "closed" ELSE @,
            !.uiConnection = IF @ = "open" THEN "closed" ELSE @,
            !.listener = "off"]

\* requestLoginAccess: the listener for window errors is added, the UI
\* window opened and the handshake with it started; or the window cannot
\* be opened.
StartRequestLoginAccess(p) ==
  /\ CanStart(p)
  /\ \E opened \in BOOLEAN :
       IF opened
       THEN Begin(p, [NoCall EXCEPT !.op = "requestLoginAccess"], "ui.connect",
                  [NoLoc EXCEPT !.listener = "on", !.uiWindow = "open"], NoNet, Null)
       ELSE Begin(p, [NoCall EXCEPT !.op = "requestLoginAccess"], "done",
                  finally([NoLoc EXCEPT !.listener = "on"]), NoNet,
                  Throw(Error("Could not open window")))

\* connectUi: the handshake with the UI window is over and the UI is sent
\* the pending permissions; or the handshake fails.
UiConnected(p) ==
  /\ pc[p] = "ui.connect"
  /\ \E ok \in BOOLEAN :
       IF ok
       THEN /\ pc' = [pc EXCEPT ![p] = "login.call"]
            /\ loc' = [loc EXCEPT ![p].sent = mysky.pendingPermissions,
                                  ![p].uiConnection = "open"]
            /\ UNCHANGED result
       ELSE /\ Finish(p, Throw(Error("handshake failed")))
            /\ loc' = [loc EXCEPT ![p] = finally(@)]
  /\ UNCHANGED <<registry, blobs, lastWrite, call, net, ncalls, portal, mysky>>

\* handleLogin rethrowing what a DAC threw.
handleLogin_rethrow(threw) ==
  IF threw # {} THEN Throw(Error("onUserLogin failed")) ELSE Ok([loggedIn |-> TRUE])

\* handleLogin(true), the DACs in `threw` having thrown from onUserLogin:
\* the errors are caught, and the login call returns true.
handleLogin(threw) == Ok([loggedIn |-> TRUE])

\* The user counting as logged in whenever a seed was found.
loggedIn_seedOnly(seedFound, failedPermissions) == seedFound

\* The user is logged in when a seed was found and no permission failed.
loggedIn(seedFound, failedPermissions) == seedFound /\ failedPermissions = {}

\* The delegate or the UI answers for the permissions it was sent: the
\* permissions granted and failed replace the ones of the instance; when
\* the user is logged in, onUserLogin is called on every DAC, otherwise the
\* call returns false.  Or the call of the delegate fails.  In
\* requestLoginAccess the clean-up has run by then.
LoginAnswer(p) ==
  /\ pc[p] = "login.call"
  /\ \E ok \in BOOLEAN, seedFound \in BOOLEAN, failed \in SUBSET loc[p].sent :
       LET answer == [seedFound |-> seedFound,
                      grantedPermissions |-> loc[p].sent \ failed,
                      failedPermissions |-> failed]
           l == IF call[p].op = "requestLoginAccess" THEN finally(loc[p]) ELSE loc[p]
       IN IF ~ok
          THEN /\ Finish(p, Throw(Error("delegate call failed")))
               /\ loc' = [loc EXCEPT ![p] = l]
               /\ UNCHANGED mysky
          ELSE /\ mysky' = [mysky EXCEPT
                              !.grantedPermissions = answer.grantedPermissions,
                              !.pendingPermissions = answer.failedPermissions]
               /\ IF loggedIn(answer.seedFound, answer.failedPermissions)
                  THEN IF mysky.dacs = {}
                       THEN /\ Finish(p, handleLogin({}))
                            /\ loc' = [loc EXCEPT ![p] = [l EXCEPT !.answer = answer]]
                       ELSE /\ loc' = [loc EXCEPT ![p] = [l EXCEPT !.answer = answer,
                                                                   !.notified = mysky.dacs]]
                            /\ pc' = [pc EXCEPT ![p] = "login.dacs"]
                            /\ UNCHANGED result
                  ELSE /\ Finish(p, Ok([loggedIn |-> FALSE]))
                       /\ loc' = [loc EXCEPT ![p] = [l EXCEPT !.answer = answer]]
  /\ UNCHANGED <<registry, blobs, lastWrite, call, net, ncalls, portal>>

\* The closing of the UI window taken for an error.
UiClosed_rejects(p) ==
  /\ call[p].op = "requestLoginAccess"
  /\ pc[p] \in {"ui.connect", "login.call"}
  /\ loc' = [loc EXCEPT ![p] = finally([@ EXCEPT !.closed = TRUE])]
  /\ Finish(p, Throw(Error("window-closed")))
  /\ UNCHANGED <<registry, blobs, lastWrite, call, net, ncalls, portal, mysky>>

\* The UI window is closed before it has answered: the promise resolves
\* with the permissions as they are, and requestLoginAccess returns false.
UiClosed(p) ==
  /\ call[p].op = "requestLoginAccess"
  /\ pc[p] \in {"ui.connect", "login.call"}
  /\ loc' = [loc EXCEPT ![p] = finally([@ EXCEPT !.closed = TRUE])]
  /\ Finish(p, Ok([loggedIn |-> FALSE]))
  /\ UNCHANGED <<registry, blobs, lastWrite, call, net, ncalls, portal, mysky>>

\* The UI reports an error other than its closing: requestLoginAccess
\* throws it.
UiError(p) ==
  /\ call[p].op = "requestLoginAccess"
  /\ pc[p] \in {"ui.connect", "login.call"}
  /\ Finish(p, Throw(Error("ui error")))
  /\ loc' = [loc EXCEPT ![p] = finally(@)]
  /\ UNCHANGED <<registry, blobs, lastWrite, call, net, ncalls, portal, mysky>>

\* The calls of onUserLogin are over, some of them with an error.
DacsNotified(p) ==
  /\ pc[p] = "login.dacs"
  /\ \E threw \in SUBSET loc[p].notified :
       /\ loc' = [loc EXCEPT ![p].threw = threw]
       /\ Finish(p, handleLogin(threw))
  /\ UNCHANGED <<registry, blobs, lastWrite, call, net, ncalls, portal, mysky>>

LoginNext ==
  \E p \in SeqProcs :
    \/ StartLoadDacs(p)
    \/ DacsInit(p)
    \/ StartCheckLogin(p)
    \/ StartRequestLoginAccess(p)
    \/ UiConnected(p)
    \/ LoginAnswer(p)
    \/ UiClosed(p)
    \/ UiError(p)
    \/ DacsNotified(p)

SpecLogin == InitFrom({"custom"}, NewMySky) /\ [][LoginNext]_vars

-----------------------------------------------------------------------------
(* uploadLargeFileRequest: the resumable upload of a large file. *)

\* uploadLargeFileRequest: the arguments are checked and the OPTIONS
\* request issued.
StartUploadLargeFile(p) ==
  /\ CanStart(p)
  /\ \E valid \in BOOLEAN :
       IF valid
       THEN Begin(p, [NoCall EXCEPT !.op = "uploadLargeFileRequest"], "large.options",
                  NoLoc, NoNet, Null)
       ELSE Begin(p, [NoCall EXCEPT !.op = "uploadLargeFileRequest"], "done",
                  NoLoc, NoNet, Throw(Error("file: type File")))

\* The answers to the OPTIONS request: an error, or headers without or
\* with Tus-Extension.
OptionsResponses ==
  {[type |-> "error", err |-> AxiosError(TRUE, 500)],
   [type |-> "headers", extension |-> Null],
   [type |-> "headers", extension |-> Text]}

\* The OPTIONS request is answered: its error is thrown; the headers are
\* asked whether Tus-Extension `contains` "concatenation", which throws when
\* the header is missing or strings have no such method; otherwise the
\* promise is made and the upload started.
OptionsResp(p) ==
  /\ pc[p] = "large.options"
  /\ \E response \in OptionsResponses, hasContains \in BOOLEAN :
       IF response.type = "error"
       THEN Finish(p, Throw(response.err)) /\ UNCHANGED loc
       ELSE IF response.extension = Null \/ ~hasContains
       THEN Finish(p, Throw(Error("TypeError"))) /\ UNCHANGED loc
       ELSE /\ loc' = [loc EXCEPT ![p].tus = "started"]
            /\ pc' = [pc EXCEPT ![p] = "large.tus"]
            /\ UNCHANGED result
  /\ UNCHANGED <<registry, blobs, lastWrite, call, net, ncalls, portal, mysky>>

\* The upload reports: onError rejects the promise; onSuccess rejects it
\* when the upload has no URL, and otherwise issues the HEAD request for
\* the skylink.
TusReport(p) ==
  /\ pc[p] = "large.tus"
  /\ \E report \in {"error", "success", "success without url"} :
       IF report = "error"
       THEN /\ loc' = [loc EXCEPT ![p].tus = "error"]
            /\ Finish(p, Throw(Error("upload failed")))
       ELSE IF report = "success without url"
       THEN /\ loc' = [loc EXCEPT ![p].tus = "success"]
            /\ Finish(p, Throw(Error("'upload.url' was not set")))
       ELSE /\ loc' = [loc EXCEPT ![p].tus = "success"]
            /\ pc' = [pc EXCEPT ![p] = "large.head"]
            /\ UNCHANGED result
  /\ UNCHANGED <<registry, blobs, lastWrite, call, net, ncalls, portal, mysky>>

\* The HEAD request of onSuccess is answered: its response resolves the
\* promise; its error is thrown inside onSuccess, where nothing catches it,
\* and the promise stays pending.
LargeHeadResp(p) ==
  /\ pc[p] = "large.head"
  /\ \E ok \in BOOLEAN :
       IF ok
       THEN Finish(p, Ok([skylink |-> SkylinkString(FALSE, 1)]))
       ELSE pc' = [pc EXCEPT ![p] = "large.pending"] /\ UNCHANGED result
  /\ UNCHANGED <<registry, blobs, lastWrite, call, loc, net, ncalls, portal, mysky>>

LargeNext ==
  \E p \in SeqProcs :
    \/ StartUploadLargeFile(p)
    \/ OptionsResp(p)
    \/ TusReport(p)
    \/ LargeHeadResp(p)

SpecLarge == Init /\ [][LargeNext]_vars

-----------------------------------------------------------------------------
(* MySky: destroy, and loadMySky after it. *)

\* destroy() clearing MySky.instance too.
Destroy_resets(p) ==
  /\ CanStart(p)
  /\ mysky.instance # Null
  /\ mysky' = [mysky EXCEPT !.destroyed = @ \cup {mysky.instance.connector},
                            !.instance = Null]
  /\ call' = [call EXCEPT ![p] = [NoCall EXCEPT !.op = "destroy"]]
  /\ loc' = [loc EXCEPT ![p] = NoLoc]
  /\ net' = [net EXCEPT ![p] = NoNet]
  /\ pc' = [pc EXCEPT ![p] = "done"]
  /\ result' = [result EXCEPT ![p] = Ok(Null)]
  /\ ncalls' = ncalls + 1
  /\ UNCHANGED <<registry, blobs, lastWrite, portal>>

\* destroy() on the instance: the connection is closed and the iframe
\* removed from its parent; an iframe that has no parent any more makes it
\* throw.  MySky.instance is left as it is.
Destroy(p) ==
  /\ CanStart(p)
  /\ mysky.instance # Null
  /\ mysky' = [mysky EXCEPT !.destroyed = @ \cup {mysky.instance.connector}]
  /\ call' = [call EXCEPT ![p] = [NoCall EXCEPT !.op = "destroy"]]
  /\ loc' = [loc EXCEPT ![p] = NoLoc]
  /\ net' = [net EXCEPT ![p] = NoNet]
  /\ pc' = [pc EXCEPT ![p] = "done"]
  /\ result' = [result EXCEPT ![p] =
                  IF mysky.instance.connector \in mysky.destroyed
                  THEN Throw(Error("'childFrame.parentNode' was not set"))
                  ELSE Ok(Null)]
  /\ ncalls' = ncalls + 1
  /\ UNCHANGED <<registry, blobs, lastWrite, portal>>

DestroyNext ==
  \E p \in SeqProcs :
    \/ StartLoadMySky(p)
    \/ ConnectorFrame(p)
    \/ Handshake(p)
    \/ NewInstance(p)
    \/ Destroy(p)

SpecDestroy == InitFrom({"custom"}, {NoMySky} \cup NewMySky) /\ [][DestroyNext]_vars

-----------------------------------------------------------------------------
(* MySky: permissions added while a login call waits for its answer. *)

\* The permissions a skapp adds with addPermissions.
ExtraPermissions == {"extra"}

\* addPermissions: the permissions are pushed on the pending ones.
AddPermissions(p) ==
  /\ CanStart(p)
  /\ mysky' = [mysky EXCEPT !.pendingPermissions = @ \cup ExtraPermissions,
                            !.added = @ \cup ExtraPermissions]
  /\ call' = [call EXCEPT ![p] = [NoCall EXCEPT !.op = "addPermissions"]]
  /\ loc' = [loc EXCEPT ![p] = NoLoc]
  /\ net' = [net EXCEPT ![p] = NoNet]
  /\ pc' = [pc EXCEPT ![p] = "done"]
  /\ result' = [result EXCEPT ![p] = Ok(Null)]
  /\ ncalls' = ncalls + 1
  /\ UNCHANGED <<registry, blobs, lastWrite, portal>>

\* One caller logs in, the other adds permissions and loads DACs meanwhile.
PermissionsNext ==
  \/ \E p \in Procs \ SeqProcs :
       \/ AddPermissions(p)
       \/ StartLoadDacs(p)
       \/ DacsInit(p)
  \/ \E p \in SeqProcs :
       \/ StartCheckLogin(p)
       \/ StartRequestLoginAccess(p)
       \/ UiConnected(p)
       \/ LoginAnswer(p)
       \/ UiClosed(p)
       \/ UiError(p)
       \/ DacsNotified(p)

SpecPermissions == InitFrom({"custom"}, NewMySky) /\ [][PermissionsNext]_vars

-----------------------------------------------------------------------------
(* Two writers of one slot, with setJSON, deleteJSON and setDataLink. *)

\* The write calls p makes on the shared slot.
RaceCalls(p) ==
  {[WriteCall("setJSON", "sk1", <<"app", FALSE>>) EXCEPT !.json = json] :
     json \in {[a |-> Num(p)]} \cap Jsons}
  \cup {WriteCall("deleteJSON", "sk1", <<"app", FALSE>>)}
  \cup {[WriteCall("setDataLink", "sk1", <<"app", FALSE>>) EXCEPT !.dataLink = dataLink] :
          dataLink \in {SkylinkString(TRUE, 2)}}

\* p calls setJSON, deleteJSON or setDataLink on the shared slot: the first
\* requests are issued.
StartRaceWrite(p) ==
  /\ CanStart(p)
  /\ \E c \in RaceCalls(p) :
       Begin(p, c, afterPortal(c).at, afterPortal(c).loc, afterPortal(c).net,
             afterPortal(c).res)

RaceNext ==
  \E p \in Procs :
    \/ StartRaceWrite(p)
    \/ GetHonest(p)
    \/ UploadHonest(p)
    \/ PostAccept(p)
    \/ PostReject(p)

SpecRace == Init /\ [][RaceNext]_vars

-----------------------------------------------------------------------------
(* Properties. *)

\* The read of a write call is done and, for setJSON, the upload too: the
\* call has computed its next revision.
Joined(p) ==
  /\ call[p].op \in WriteOps
  /\ pc[p] \in {"post", "done"}
  /\ loc[p].signedEntry # Null
  /\ call[p].op = "setJSON" => loc[p].skyfile # Null

RevisionExhausted == Error("Current entry already has maximum allowed revision")

\* C1: in every write call, the revision of the entry to write is 0 when the
\* fetched entry is absent and r + 1 when the fetched entry has revision
\* r < MAX_REVISION; when r = MAX_REVISION the call fails with the
\* revision error and has issued no POST.
C1_NextRevision ==
  \A p \in Procs :
    Joined(p) =>
      LET fetched == loc[p].signedEntry.entry
      IN IF fetched = Null
         THEN loc[p].entry # Null /\ loc[p].entry.revision = 0
         ELSE IF fetched.revision < MAX_REVISION
         THEN loc[p].entry # Null /\ loc[p].entry.revision = fetched.revision + 1
         ELSE /\ pc[p] = "done"
              /\ result[p] = Throw(RevisionExhausted)
              /\ net[p].post = 0
              /\ loc[p].entry = Null

\* A write call has fetched an entry of revision MAX_REVISION and failed.
C1_Witness ==
  \E p \in Procs :
    /\ Joined(p)
    /\ loc[p].signedEntry.entry # Null
    /\ loc[p].signedEntry.entry.revision = MAX_REVISION
    /\ result[p] = Throw(RevisionExhausted)

\* C2: every entry that setJSON, deleteJSON or setDataLink gets stored has
\* revision 0 when the slot was empty before, and otherwise the revision
\* stored before plus 1.
C2_StoredRevisionStep ==
  [][\A p \in Procs :
       (pc[p] = "post" /\ pc'[p] = "done" /\ result'[p].ok
        /\ call[p].op \in WriteOps) =>
         LET before == registry[postSlot(p)]
             after == registry'[postSlot(p)]
         IN /\ after # Null
            /\ after # before
            /\ after.revision = IF before = Null THEN 0 ELSE before.revision + 1]_vars

\* A write call has stored an entry over an earlier one, and another one
\* has stored the first entry of a slot.
C2_Witness ==
  \E s \in Slots :
    /\ lastWrite[s] # Null
    /\ lastWrite[s].op \in WriteOps
    /\ registry[s].revision = MAX_REVISION

\* The signature of a signed entry is the 64-byte signature, by the owner of
\* the public key, of the digest of the entry's data key, data and revision.
SignedBy(signedEntry, publicKey, hashedDataKeyHex) ==
  /\ signedEntry.signature.len = SIGNATURE_LENGTH
  /\ signedEntry.signature.signer \in PrivateKeys
  /\ publicKeyOf(signedEntry.signature.signer) = publicKey
  /\ signedEntry.signature.digest =
       <<wireDataKey(signedEntry.entry.dataKey, hashedDataKeyHex),
         signedEntry.entry.data, signedEntry.entry.revision>>

\* C3: a present entry that getEntry returns, to its caller or to the SkyDB
\* call that made it, carries a signature that verifies for the entry's
\* data key, data and revision and the public key of the call.
C3_OnlyVerifiedEntries ==
  \A p \in Procs :
    /\ (loc[p].signedEntry # Null /\ loc[p].signedEntry.entry # Null) =>
         SignedBy(loc[p].signedEntry, call[p].publicKey, call[p].hashedDataKeyHex)
    /\ (call[p].op = "getEntry" /\ pc[p] = "done" /\ result[p].ok
        /\ result[p].value.entry # Null) =>
         SignedBy(result[p].value, call[p].publicKey, call[p].hashedDataKeyHex)

\* getEntry got an answer whose signature does not match and has failed.
C3_Witness ==
  \E p \in Procs :
    /\ call[p].op = "getEntry"
    /\ pc[p] = "done"
    /\ result[p] = Throw(Error("could not verify signature"))

\* C5: when the registry GET is answered with status 404, getEntry returns
\* {entry: null, signature: null}.
C5_NotFoundIsAbsent ==
  \A p \in Procs :
    (call[p].op = "getEntry" /\ pc[p] = "done"
     /\ loc[p].raised = AxiosError(TRUE, 404)) =>
      result[p] = Ok([entry |-> Null, signature |-> Null])

\* getEntry with somebody else's public key and a hashed data key got a 404.
C5_Witness ==
  \E p \in Procs :
    /\ call[p].op = "getEntry"
    /\ call[p].publicKey = "pk2"
    /\ call[p].hashedDataKeyHex
    /\ pc[p] = "done"
    /\ loc[p].raised = AxiosError(TRUE, 404)
    /\ result[p] = Ok([entry |-> Null, signature |-> Null])

\* C4 (as claimed): the signature a write call posts is a 64-byte detached
\* signature that the verification of getEntry accepts for the posted entry
\* and the public key of the signer.
C4_SignatureIsDetached ==
  \A p \in Procs :
    loc[p].signature # Null =>
      /\ loc[p].signature.len = SIGNATURE_LENGTH
      /\ verifyDetached(hashRegistryEntry(loc[p].entry, call[p].hashedDataKeyHex),
                        loc[p].signature, call[p].publicKey) = "true"

\* The registry GET of the call of p has failed with an error other than a
\* 404 response, and the call is over.
GetFailed(p) ==
  /\ pc[p] = "done"
  /\ loc[p].raised # Null
  /\ loc[p].raised # AxiosError(TRUE, 404)

LastWriteBy(s, op) ==
  IF lastWrite[s] = Null THEN FALSE ELSE lastWrite[s].op = op

\* The call of p is over and the portal answered its requests honestly.
DoneFaithfully(p, op) ==
  call[p].op = op /\ pc[p] = "done" /\ loc[p].faithful

\* C7: when the last write to a slot is a setJSON that succeeded, getJSON of
\* that slot returns the json that was set and the dataLink that setJSON
\* returned.
C7_SetThenGet ==
  \A p \in Procs :
    (DoneFaithfully(p, "getJSON") /\ LastWriteBy(slotOf(call[p]), "setJSON")
     /\ lastWrite[slotOf(call[p])].faithful) =>
      LET set == lastWrite[slotOf(call[p])]
      IN /\ set.return.dataLink # Null
         /\ result[p] = Ok([data |-> set.json, dataLink |-> set.return.dataLink])

\* getJSON has returned a document that setJSON stored.
C7_Witness ==
  \E p \in Procs :
    /\ DoneFaithfully(p, "getJSON")
    /\ LastWriteBy(slotOf(call[p]), "setJSON")
    /\ result[p].ok
    /\ result[p].value.data \in Jsons

\* C8: when the last write to a slot is a deleteJSON that succeeded, getJSON
\* of that slot returns {data: null, dataLink: null} without a download.
C8_DeleteThenGet ==
  \A p \in Procs :
    (DoneFaithfully(p, "getJSON") /\ LastWriteBy(slotOf(call[p]), "deleteJSON")) =>
      /\ result[p] = Ok([data |-> Null, dataLink |-> Null])
      /\ net[p].download = 0

\* getJSON has read a slot that held a skylink before deleteJSON wrote it.
C8_Witness ==
  \E p \in Procs :
    /\ DoneFaithfully(p, "getJSON")
    /\ LastWriteBy(slotOf(call[p]), "deleteJSON")
    /\ registry[slotOf(call[p])].revision > 0
    /\ result[p] = Ok([data |-> Null, dataLink |-> Null])

\* C9: getEntry returns an absent entry for a slot never written and a
\* present, verified entry of 34 zero bytes for a slot last written by
\* deleteJSON; getJSON returns data null for both.
C9_NeverWrittenOrDeleted ==
  \A p \in Procs :
    LET s == slotOf(call[p])
    IN /\ (DoneFaithfully(p, "getEntry") /\ registry[s] = Null) =>
            result[p] = Ok([entry |-> Null, signature |-> Null])
       /\ (DoneFaithfully(p, "getEntry") /\ LastWriteBy(s, "deleteJSON")) =>
            /\ result[p].ok
            /\ result[p].value.entry # Null
            /\ result[p].value.entry.data = Bytes(RAW_SKYLINK_SIZE, 0)
            /\ SignedBy(result[p].value, call[p].publicKey, call[p].hashedDataKeyHex)
       /\ (DoneFaithfully(p, "getJSON")
           /\ (registry[s] = Null \/ LastWriteBy(s, "deleteJSON"))) =>
            /\ result[p].ok
            /\ result[p].value.data = Null

\* getEntry has returned the entry of a deleted slot.
C9_Witness ==
  \E p \in Procs :
    /\ DoneFaithfully(p, "getEntry")
    /\ LastWriteBy(slotOf(call[p]), "deleteJSON")
    /\ result[p].ok
    /\ result[p].value.entry # Null

\* The data deleteJSON and setDataLink are to store.
SentinelOrLink(c) ==
  IF c.op = "deleteJSON" THEN Bytes(RAW_SKYLINK_SIZE, 0)
  ELSE Bytes(RAW_SKYLINK_SIZE, c.dataLink.b64)

\* C10: a deleteJSON or setDataLink call issues no upload and no download,
\* one registry GET, and at most one POST, which comes after the GET has
\* returned; the entry it posts, and stores when the POST succeeds, has as
\* data 34 zero bytes (deleteJSON) or the 34 bytes the data link decodes to
\* (setDataLink).
C10_ReadThenWriteOnly ==
  \A p \in Procs :
    call[p].op \in {"deleteJSON", "setDataLink"} =>
      /\ net[p].upload = 0
      /\ net[p].download = 0
      /\ net[p].get = 1
      /\ net[p].post = IF loc[p].entry = Null THEN 0 ELSE 1
      /\ loc[p].entry # Null =>
           /\ loc[p].signedEntry # Null
           /\ loc[p].entry.data = SentinelOrLink(call[p])
      /\ (pc[p] = "done" /\ result[p].ok) =>
           /\ loc[p].entry # Null
           /\ registry[postSlot(p)].data = SentinelOrLink(call[p])

\* setDataLink has stored the decoding of a data link with the URI prefix.
C10_Witness ==
  \E p \in Procs :
    /\ call[p].op = "setDataLink"
    /\ call[p].dataLink = SkylinkString(TRUE, 2)
    /\ pc[p] = "done"
    /\ result[p].ok
    /\ registry[postSlot(p)].data = Bytes(RAW_SKYLINK_SIZE, 2)

\* getJSON of p was called with a valid cached data link, and the slot
\* holds an entry with a data link, which the portal has returned.
CachedCase(p) ==
  /\ call[p].op = "getJSON"
  /\ pc[p] \in {"download", "done"}
  /\ loc[p].faithful
  /\ call[p].cachedDataLink # Null
  /\ IsSkylinkString(call[p].cachedDataLink)
  /\ registry[slotOf(call[p])] # Null
  /\ registry[slotOf(call[p])].data # EMPTY_SKYLINK

\* The cached data link of p is the link the slot holds.
CachedIsStored(p) ==
  call[p].cachedDataLink.b64 = registry[slotOf(call[p])].data.id

\* What getJSON is to return for the blob a link of the model points to.
StoredJson(id) == IF id = 3 THEN LegacyDoc ELSE ContentList[id]["_data"]

\* Where the cached data link is another link than the stored one, getJSON
\* has issued one download, and returns the data of the blob.
DownloadsOtherwise(p) ==
  (CachedCase(p) /\ ~CachedIsStored(p)) =>
    /\ net[p].download = 1
    /\ (pc[p] = "done" /\ result[p].ok) =>
         result[p].value.data = StoredJson(registry[slotOf(call[p])].data.id)

\* C11 (as claimed): getJSON with a cachedDataLink L equal to the stored data
\* link returns {data: null, dataLink: L} without a download; with another
\* L it downloads the blob and returns its data.
C11_CachedReturnsL ==
  \A p \in Procs :
    /\ (CachedCase(p) /\ CachedIsStored(p)) =>
         /\ pc[p] = "done"
         /\ net[p].download = 0
         /\ result[p] = Ok([data |-> Null, dataLink |-> call[p].cachedDataLink])
    /\ DownloadsOtherwise(p)

\* C11 (amended): getJSON with a cachedDataLink L that names the stored data
\* link, with or without the sia: prefix, returns data null and the stored
\* data link in its sia: form (which is L only when L has that form),
\* without a download; with another L it downloads the blob and returns its
\* data.
C11_CachedReturnsStoredLink ==
  \A p \in Procs :
    /\ (CachedCase(p) /\ CachedIsStored(p)) =>
         /\ pc[p] = "done"
         /\ net[p].download = 0
         /\ result[p] =
              Ok([data |-> Null,
                  dataLink |-> SkylinkString(TRUE, call[p].cachedDataLink.b64)])
    /\ DownloadsOtherwise(p)

\* getJSON was given the stored link with the prefix and has returned it.
C11_Witness ==
  \E p \in Procs :
    /\ CachedCase(p)
    /\ CachedIsStored(p)
    /\ call[p].cachedDataLink.uri
    /\ result[p] = Ok([data |-> Null, dataLink |-> call[p].cachedDataLink])

\* C12 (as claimed): getJSON returns the value of _data exactly when the
\* downloaded object has both a _data key and a _v key, and otherwise the
\* downloaded object as it is.
C12_UnwrapsByKeys ==
  \A p \in Procs :
    (call[p].op = "getJSON" /\ pc[p] = "done" /\ loc[p].content # Null
     /\ IsObject(loc[p].content)) =>
      LET data == loc[p].content
      IN result[p] =
           Ok([data |-> IF {"_data", "_v"} \subseteq DOMAIN data
                        THEN data["_data"] ELSE data,
               dataLink |-> loc[p].dataLink])

\* The errors that report a malformed argument.
ArgumentErrors ==
  {Error(name) : name \in {"publicKey", "privateKey", "dataKey", "json", "dataLink",
                           "customOptions", "cachedDataLink", "entry", "signature"}}

\* C13 (as claimed): a call that fails on a malformed argument or option
\* value has issued no network request: no request for the portal URL, no
\* upload, no registry GET, no registry POST.
C13_FailsBeforeNetwork ==
  \A p \in Procs :
    (pc[p] = "done" /\ ~result[p].ok /\ result[p].error \in ArgumentErrors) =>
      net[p] = NoNet

\* C14 (as claimed): every entry for which a registry POST is issued has a
\* revision in 0 .. MAX_REVISION.
C14_PostedRevisionInRange ==
  \A p \in Procs :
    net[p].post >= 1 => loc[p].entry.revision \in 0..MAX_REVISION

\* C15: getEntryLink issues no request and returns the link of the public
\* key and the data key as it goes over the wire, whatever the registry
\* holds and whichever writes came before.
C15_EntryLinkIsPure ==
  \A p \in Procs :
    (call[p].op = "getEntryLink" /\ pc[p] = "done" /\ result[p].ok) =>
      /\ net[p] = NoNet
      /\ result[p].value =
           formatSkylink(newSkylinkV2(call[p].publicKey,
                                      wireDataKey(call[p].dataKey,
                                                  call[p].hashedDataKeyHex)))

\* getEntryLink has returned the link of a slot that a call wrote before.
C15_Witness ==
  \E p \in Procs :
    /\ call[p].op = "getEntryLink"
    /\ pc[p] = "done"
    /\ result[p].ok
    /\ lastWrite[slotOf(call[p])] # Null

\* C16 (as claimed): one connector at most is ever created, and all calls
\* of loadMySky that return, return the same instance.
C16_OneInstance ==
  /\ mysky.connectors <= 1
  /\ \A p, q \in Procs :
       (call[p].op = "loadMySky" /\ pc[p] = "done" /\ result[p].ok
        /\ call[q].op = "loadMySky" /\ pc[q] = "done" /\ result[q].ok) =>
         result[p].value = result[q].value

\* C17: setEntryData with data of more than MAX_ENTRY_LENGTH bytes fails on
\* the spot, having called neither the delegate nor the registry, and the
\* registry stays as it is; data of MAX_ENTRY_LENGTH bytes or fewer does not
\* fail with that error.
C17_EntryDataLength ==
  [][\A p \in Procs :
       call'[p].op = "setEntryData" =>
         IF call'[p].entry.len > MAX_ENTRY_LENGTH
         THEN /\ pc'[p] = "done"
              /\ result'[p] = Throw(Error("data: length <= 70"))
              /\ net'[p] = NoNet
              /\ registry' = registry
         ELSE pc'[p] = "done" => result'[p] # Throw(Error("data: length <= 70"))]_vars

\* setEntryData has refused data of one byte more than MAX_ENTRY_LENGTH.
C17_Witness ==
  \E p \in Procs :
    /\ call[p].op = "setEntryData"
    /\ call[p].entry.len = MAX_ENTRY_LENGTH + 1
    /\ pc[p] = "done"
    /\ result[p] = Throw(Error("data: length <= 70"))

\* C18: a setJSON call has started its upload and its registry GET by the
\* time it first suspends, whichever of the two is answered first it issues
\* no POST while the other is pending, and when it has issued its POST both
\* have been answered with success.
C18_PostAfterJoin ==
  \A p \in Procs :
    call[p].op = "setJSON" =>
      /\ net[p].get = 1 /\ net[p].upload = 1
      /\ pc[p] = "fork" => net[p].post = 0
      /\ net[p].post >= 1 =>
           /\ pc[p] \in {"post", "done"}
           /\ loc[p].signedEntry # Null
           /\ loc[p].skyfile # Null
           /\ loc[p].raised \in {Null, AxiosError(TRUE, 404)}

\* setJSON has issued its POST, with the skylink of the upload in the entry.
C18_Witness ==
  \E p \in Procs :
    /\ call[p].op = "setJSON"
    /\ pc[p] = "post"
    /\ net[p] = [NoNet EXCEPT !.get = 1, !.upload = 1, !.post = 1]
    /\ loc[p].entry.data = Bytes(RAW_SKYLINK_SIZE, loc[p].skyfile.skylink.b64)

\* The calls of p and q are setJSON calls on one slot that computed the same
\* revision from what they read; the POST of p has been accepted, the POST
\* of q is in flight.
SameRevisionRace(p, q) ==
  /\ p # q
  /\ call[p].op = "setJSON" /\ call[q].op = "setJSON"
  /\ slotOf(call[p]) = slotOf(call[q])
  /\ pc[p] = "done" /\ result[p].ok
  /\ pc[q] = "post"
  /\ loc[p].entry.revision = loc[q].entry.revision
  /\ registry[slotOf(call[p])].revision = loc[p].entry.revision

\* C19 (as claimed): of two setJSON calls that read the same revision, the
\* one whose POST reaches the portal last is the one stored.
C19_LastSubmittedStored ==
  [][\A p, q \in Procs :
       (SameRevisionRace(p, q) /\ pc'[q] = "done") =>
         registry'[slotOf(call[q])].data = loc[q].entry.data]_vars

\* C19 (amended): of two setJSON calls that read the same revision, the one
\* whose POST reaches the portal first is stored; the POST of the other is
\* rejected, that call throws the error of its POST and the slot keeps the
\* entry of the first.
C19_FirstSubmittedStored ==
  [][\A p, q \in Procs :
       (SameRevisionRace(p, q) /\ pc'[q] = "done") =>
         /\ registry' = registry
         /\ ~result'[q].ok
         /\ result'[q].error \in PostErrors]_vars

\* Two setJSON calls with different documents read the same entry; the
\* first POST was stored and the second call has failed.
C19_Witness ==
  \E p, q \in Procs :
    /\ p # q
    /\ call[p].op = "setJSON" /\ call[q].op = "setJSON"
    /\ call[p].json # call[q].json
    /\ pc[p] = "done" /\ result[p].ok
    /\ pc[q] = "done" /\ ~result[q].ok
    /\ net[q].post = 1
    /\ loc[p].faithful /\ loc[q].faithful
    /\ loc[p].entry.revision = loc[q].entry.revision
    /\ registry[slotOf(call[p])].data = loc[p].entry.data
    /\ registry[slotOf(call[p])].data # loc[q].entry.data

\* C20: a call of setJSON, deleteJSON, setDataLink or setEntry issues one
\* POST at most, and a call of setJSON, deleteJSON or setDataLink issues one
\* GET, no more and no fewer, whatever the answers to its requests.
C20_NoRetry ==
  \A p \in Procs :
    /\ call[p].op \in WriteOps \cup {"setEntry"} => net[p].post <= 1
    /\ call[p].op \in WriteOps => net[p].get = 1

\* A write call has failed on its POST, after one GET and one POST.
C20_Witness ==
  \E p \in Procs :
    /\ call[p].op \in WriteOps
    /\ pc[p] = "done"
    /\ result[p] \in {Throw(e) : e \in PostErrors}
    /\ net[p].get = 1
    /\ net[p].post = 1

C22_SlotsOnlyMoveForward ==
  [][/\ \A s \in Slots : registry[s] # Null => registry'[s] # Null
     /\ \A p \in Procs :
          /\ (pc[p] = "post" /\ pc'[p] = "done" /\ result'[p].ok
              /\ call[p].op = "deleteJSON") =>
               /\ registry'[postSlot(p)] # Null
               /\ registry'[postSlot(p)].data = Bytes(RAW_SKYLINK_SIZE, 0)
               /\ registry[postSlot(p)] = Null => registry'[postSlot(p)].revision = 0
          /\ (DoneFaithfully(p, "getEntry")' /\ registry'[slotOf(call'[p])] # Null) =>
               /\ result'[p].ok
               /\ result'[p].value.entry # Null]_vars

\* getEntry has returned the present entry of a slot that held an entry
\* before deleteJSON wrote it.
C22_Witness ==
  \E p \in Procs :
    /\ DoneFaithfully(p, "getEntry")
    /\ LastWriteBy(slotOf(call[p]), "deleteJSON")
    /\ registry[slotOf(call[p])].revision > 0
    /\ result[p].ok
    /\ result[p].value.entry # Null
    /\ result[p].value.entry.revision = registry[slotOf(call[p])].revision

LengthError == Error("entry.data: expected length 34 bytes")

\* C23: when getEntry has returned an entry that is not the deletion
\* sentinel, getJSON goes on for data of 46 and of 34 bytes and getRawBytes
\* for data of 34 bytes; for data of any other length the call fails with
\* the validation error of the length and has issued no download.
C23_TwoLengths ==
  \A p \in Procs :
    (/\ call[p].op \in {"getJSON", "getRawBytes"}
     /\ pc[p] \in {"download", "done"}
     /\ loc[p].signedEntry # Null) =>
      LET entry == loc[p].signedEntry.entry
      IN IF entry = Null THEN TRUE
         ELSE IF entry.data = EMPTY_SKYLINK THEN TRUE
         ELSE IF \/ entry.data.len = RAW_SKYLINK_SIZE
                 \/ (call[p].op = "getJSON"
                     /\ entry.data.len = BASE64_ENCODED_SKYLINK_SIZE)
         THEN /\ net[p].download = 1
              /\ pc[p] = "done" => result[p] # Throw(LengthError)
         ELSE /\ pc[p] = "done"
              /\ result[p] = Throw(LengthError)
              /\ net[p].download = 0

\* getRawBytes has refused an entry of 46 bytes.
C23_Witness ==
  \E p \in Procs :
    /\ call[p].op = "getRawBytes"
    /\ pc[p] = "done"
    /\ loc[p].signedEntry # Null
    /\ loc[p].signedEntry.entry # Null
    /\ loc[p].signedEntry.entry.data.len = BASE64_ENCODED_SKYLINK_SIZE
    /\ result[p] = Throw(LengthError)
    /\ net[p].download = 0

\* C24: the request for the portal URL is issued once at most, a call of a
\* client made with a portal URL issues none and waits for none, and
\* SkynetClient.resolvedPortalUrl, once set, is never set again: it goes from
\* pending to settled and stays as it is.
C24_ResolvedOnce ==
  /\ [](/\ portal.requests <= 1
        /\ \A p \in Procs :
             call[p].customPortalUrl => (net[p].resolve = 0 /\ pc[p] # "resolve"))
  /\ [][/\ portal.url # "unresolved" =>
             (portal'.url # "unresolved" /\ portal'.requests = portal.requests)
        /\ portal.url \in {"resolved", "failed"} => portal' = portal]_vars

\* Two calls of clients made without a portal URL await the one request.
C24_Witness ==
  \E p, q \in Procs :
    /\ p # q
    /\ pc[p] = "resolve" /\ pc[q] = "resolve"
    /\ ~call[p].customPortalUrl /\ ~call[q].customPortalUrl
    /\ net[p].resolve = 1 /\ net[q].resolve = 0
    /\ portal.requests = 1

Denied == Throw(Error("permission denied"))

C26_RevisionSurvivesWire ==
  \A p \in Procs :
    call[p].op = "wire" =>
      /\ pc[p] = "wire.post" =>
           /\ loc[p].content.kind = "number"
           /\ \A i \in 1..Len(loc[p].content.text) : loc[p].content.text[i] \in 0..9
           /\ Len(loc[p].content.text) > 1 => loc[p].content.text[1] # 0
           /\ fromDigits(loc[p].content.text) = call[p].entry.revision
      /\ pc[p] = "done" =>
           /\ result[p] = Ok([revision |-> fromDigits(loc[p].content.text)])
           /\ result[p].value.revision = call[p].entry.revision

\* The greatest revision, which no JavaScript number holds, has come back
\* from the portal.
C26_Witness ==
  \E p \in Procs :
    /\ call[p].op = "wire"
    /\ pc[p] = "done"
    /\ call[p].entry.revision = 2^WireBits - 1
    /\ jsNumber(call[p].entry.revision) # call[p].entry.revision
    /\ result[p] = Ok([revision |-> 2^WireBits - 1])

\* What a call alone returns that reads `stored` in its slot, from a blob
\* store `store`; for a write call, `l` holds the skyfile of its upload.
AloneResult(c, l, stored, store) ==
  LET got == getEntryResult(c.publicKey, c.dataKey, c.hashedDataKeyHex,
                            faithfulGet(stored))
      revision == getNextRevisionFromEntry(got.value.entry)
      entry == skyDBRegistryEntry(got.value.entry)
      parsed == parseDataLink(entry.data, TRUE)
      content == ContentList[parsed.value.rawDataLink.b64]
  IN IF ~got.ok \/ c.op = "getEntry" THEN got
     ELSE IF c.op = "getJSON"
     THEN IF entry = Null THEN Ok([data |-> Null, dataLink |-> Null])
          ELSE IF ~parsed.ok THEN parsed
          ELSE IF parsed.value.rawDataLink.b64 \in LinkIds /\ content \in store
          THEN jsonFromContent(content, parsed.value.dataLink)
          ELSE Throw(AxiosError(TRUE, 404))
     ELSE IF ~revision.ok THEN revision
     ELSE Ok(writeReturn(c, l))

\* The entry a write call alone leaves in its slot, where it read `stored`.
AloneStored(c, l, stored) ==
  LET revision == getNextRevisionFromEntry(stored)
      entry == [dataKey |-> c.dataKey, data |-> writeData(c, l),
                revision |-> revision.value]
  IN IF ~revision.ok THEN stored
     ELSE [data |-> entry.data, revision |-> entry.revision,
           signature |-> storedSignature(signEntry(c.privateKey, entry,
                                                   c.hashedDataKeyHex))]

\* What the slot of a finished call held when the call started.
StoredBefore(p) ==
  IF call[p].op \in WriteOps /\ loc[p].signedEntry # Null
  THEN IF loc[p].signedEntry.entry = Null THEN Null
       ELSE [data |-> loc[p].signedEntry.entry.data,
             revision |-> loc[p].signedEntry.entry.revision,
             signature |-> loc[p].signedEntry.signature]
  ELSE registry[slotOf(call[p])]

C28_ClosedWindowChangesNothing ==
  /\ [](\A p \in Procs :
          loc[p].closed => (pc[p] = "done" /\ result[p] = Ok([loggedIn |-> FALSE])))
  /\ [][\A p \in Procs :
          loc'[p].closed =>
            /\ mysky'.pendingPermissions = mysky.pendingPermissions
            /\ mysky'.grantedPermissions = mysky.grantedPermissions]_vars

\* The UI window was closed while the UI had the pending permissions to
\* decide on.
C28_Witness ==
  \E p \in Procs :
    /\ call[p].op = "requestLoginAccess"
    /\ loc[p].closed
    /\ pc[p] = "done"
    /\ mysky.pendingPermissions # {}
    /\ mysky.grantedPermissions = {}

\* C29: a checkLogin or requestLoginAccess that found the user logged in
\* has called onUserLogin on every loaded DAC and returns true, whichever of
\* these calls threw.
C29_DacErrorsAreCaught ==
  \A p \in Procs :
    (call[p].op \in {"checkLogin", "requestLoginAccess"} /\ pc[p] = "done"
     /\ loc[p].notified # {}) =>
      /\ loc[p].notified = mysky.dacs
      /\ result[p] = Ok([loggedIn |-> TRUE])

\* Of two loaded DACs one has thrown from onUserLogin, and the login call
\* has returned true.
C29_Witness ==
  \E p \in Procs :
    /\ call[p].op \in {"checkLogin", "requestLoginAccess"}
    /\ pc[p] = "done"
    /\ mysky.dacs = Dacs
    /\ loc[p].notified = Dacs
    /\ loc[p].threw = {"dac1"}
    /\ result[p] = Ok([loggedIn |-> TRUE])

\* The registry read of the write call of p has failed (the request, or the
\* check of what it returned), or the upload of a setJSON call has.
ReadOrUploadFailed(p) ==
  /\ call[p].op \in WriteOps
  /\ pc[p] = "done"
  /\ net[p].get = 1
  /\ \/ loc[p].signedEntry = Null
     \/ loc[p].raised \notin {Null, AxiosError(TRUE, 404)}
     \/ call[p].op = "setJSON" /\ loc[p].skyfile = Null

\* C30: a setJSON, deleteJSON or setDataLink call whose registry read has
\* failed, or whose upload has (setJSON), has thrown and has issued no
\* POST; and no step of a write call that has issued no POST changes an
\* entry of the registry.
C30_FailedWriteStoresNothing ==
  /\ [](\A p \in Procs :
          ReadOrUploadFailed(p) => (~result[p].ok /\ net[p].post = 0))
  /\ [][\A p \in Procs :
          (call'[p].op \in WriteOps /\ net'[p].post = 0) => registry' = registry]_vars

\* A setJSON call on a slot that holds an entry has failed: its upload was
\* answered with an error after its registry read had returned the entry.
C30_Witness ==
  \E p \in Procs :
    /\ call[p].op = "setJSON"
    /\ pc[p] = "done"
    /\ loc[p].signedEntry # Null
    /\ loc[p].signedEntry.entry # Null
    /\ loc[p].skyfile = Null
    /\ ~result[p].ok
    /\ net[p] = [NoNet EXCEPT !.get = 1, !.upload = 1]
    /\ registry[getSlot(call[p])] # Null

\* C31: when the POST of a setJSON, deleteJSON or setDataLink call is
\* answered and the call returns a result, the portal has accepted that POST
\* and the slot holds the entry of the call; a POST whose revision is not
\* above the stored one ends the call with an error.
C31_SuccessOnlyWhenAccepted ==
  [][\A p \in Procs :
       (call[p].op \in WriteOps /\ pc[p] = "post" /\ pc'[p] = "done") =>
         /\ result'[p].ok =>
              /\ accepts(registry[postSlot(p)], loc[p].entry)
              /\ registry'[postSlot(p)].data = loc[p].entry.data
              /\ registry'[postSlot(p)].revision = loc[p].entry.revision
         /\ ~accepts(registry[postSlot(p)], loc[p].entry) =>
              /\ ~result'[p].ok
              /\ registry' = registry]_vars

\* A deleteJSON and a setDataLink call read the same entry; the deletion
\* was stored first, and the setDataLink call, whose revision is no longer
\* above the stored one, has failed on its POST.
C31_Witness ==
  \E p, q \in Procs :
    /\ p # q
    /\ call[p].op = "deleteJSON" /\ call[q].op = "setDataLink"
    /\ pc[p] = "done" /\ result[p].ok
    /\ pc[q] = "done" /\ ~result[q].ok
    /\ net[q].post = 1
    /\ loc[q].entry.revision <= registry[getSlot(call[q])].revision
    /\ registry[getSlot(call[q])].data = loc[p].entry.data
    /\ registry[getSlot(call[q])].data # loc[q].entry.data

\* C32: every permission that addPermissions or loadDacs has added is in
\* grantedPermissions or in pendingPermissions.
C32_NoPermissionDropped ==
  mysky.added \subseteq (mysky.grantedPermissions \cup mysky.pendingPermissions)

\* C33: a checkLogin call that has returned has returned true exactly when
\* the delegate reported a seed and no failed permission; grantedPermissions
\* is the granted list and pendingPermissions the failed list of the answer;
\* and onUserLogin was called on every loaded DAC when the result is true,
\* on none when it is false.
C33_CheckLoginResult ==
  \A p \in Procs :
    (call[p].op = "checkLogin" /\ pc[p] = "done" /\ result[p].ok) =>
      /\ result[p].value.loggedIn =
           (loc[p].answer.seedFound /\ loc[p].answer.failedPermissions = {})
      /\ mysky.grantedPermissions = loc[p].answer.grantedPermissions
      /\ mysky.pendingPermissions = loc[p].answer.failedPermissions
      /\ loc[p].notified = IF result[p].value.loggedIn THEN mysky.dacs ELSE {}

\* With two DACs loaded, the delegate reported a seed and one failed
\* permission: checkLogin has returned false and has called no DAC.
C33_Witness ==
  \E p \in Procs :
    /\ call[p].op = "checkLogin"
    /\ pc[p] = "done"
    /\ mysky.dacs = Dacs
    /\ loc[p].answer # Null
    /\ loc[p].answer.seedFound
    /\ loc[p].answer.failedPermissions = DacPermissions
    /\ loc[p].answer.grantedPermissions = SkappPermissions
    /\ result[p] = Ok([loggedIn |-> FALSE])
    /\ loc[p].notified = {}

\* C34: no step changes MySky.instance once it is set; and once the
\* instance is destroyed no connector is created any more, and a loadMySky
\* call returns that instance at once.
C34_InstanceNeverReset ==
  [][mysky.instance # Null =>
       /\ mysky'.instance = mysky.instance
       /\ mysky.instance.connector \in mysky.destroyed =>
            /\ mysky'.connectors = mysky.connectors
            /\ \A p \in Procs :
                 (call'[p].op = "loadMySky" /\ ncalls' # ncalls) =>
                   /\ pc'[p] = "done"
                   /\ result'[p] = Ok(mysky.instance)]_vars

\* loadMySky, called after destroy(), has returned the destroyed instance;
\* its connector is the only one there is.
C34_Witness ==
  \E p \in Procs :
    /\ call[p].op = "loadMySky"
    /\ pc[p] = "done"
    /\ result[p].ok
    /\ result[p].value = mysky.instance
    /\ result[p].value.connector \in mysky.destroyed
    /\ mysky.connectors = 1

\* C35: a requestLoginAccess call that has returned or thrown has no UI
\* window open, no UI connection open, and its listener for window errors
\* is removed; so it is already when the call goes on to onUserLogin.
C35_CleansUp ==
  \A p \in Procs :
    (call[p].op = "requestLoginAccess" /\ pc[p] \in {"done", "login.dacs"}) =>
      /\ loc[p].uiWindow # "open"
      /\ loc[p].uiConnection # "open"
      /\ loc[p].listener = "off"

\* requestLoginAccess has thrown the error of the UI's handshake: its
\* window is closed, there was no connection, the listener is removed.
C35_Witness ==
  \E p \in Procs :
    /\ call[p].op = "requestLoginAccess"
    /\ pc[p] = "done"
    /\ result[p] = Throw(Error("handshake failed"))
    /\ loc[p].uiWindow = "closed"
    /\ loc[p].uiConnection = "none"
    /\ loc[p].listener = "off"

C37_FailureIsRemembered ==
  [][portal.url = "failed" =>
       /\ portal' = portal
       /\ \A p \in Procs :
            (pc[p] # "done" /\ pc'[p] = "done" /\ ~call'[p].customPortalUrl) =>
              result'[p] = Throw(portal.error)]_vars

\* The request of one caller has failed for want of the header; that
\* caller and another, who issued no request, have thrown that error.
C37_Witness ==
  \E p, q \in Procs :
    /\ p # q
    /\ portal.url = "failed"
    /\ portal.error = Error("Could not get portal URL for the given portal")
    /\ portal.requests = 1
    /\ call[p].op = "portalUrl" /\ call[q].op = "portalUrl"
    /\ pc[p] = "done" /\ pc[q] = "done"
    /\ net[p].resolve = 1 /\ net[q].resolve = 0
    /\ result[p] = Throw(portal.error)
    /\ result[q] = Throw(portal.error)

====
